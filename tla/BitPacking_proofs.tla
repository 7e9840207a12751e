------------------------- MODULE BitPacking_proofs -------------------------
(***************************************************************************)
(* Theorems about BitPacking, for every width of a byte and of the         *)
(* scratch, every byte order, all fields, any number of calls and whatever *)
(* bytes reach the reader.                                                 *)
(***************************************************************************)
EXTENDS BitPacking, SequenceTheorems, WellFoundedInduction, TLAPS

-----------------------------------------------------------------------------
(***************************************************************************)
(* Numbers.                                                                *)
(***************************************************************************)
LEMMA LeastNumber ==
  ASSUME NEW T, T \subseteq Nat, T # {}
  PROVE  \E t \in T : \A y \in T : t <= y
<1>1. PICK t \in T : \A y \in T : ~ (<<y, t>> \in OpToRel(<, Nat))
  BY NatLessThanWellFounded, WFMin, Zenon
<1>2. ASSUME NEW y \in T PROVE t <= y
  <2>1. y \in Nat /\ t \in Nat
    OBVIOUS
  <2>2. CASE y < t
    <3>1. PICK z : z = <<y, t>>
      OBVIOUS
    <3>2. z \in Nat \X Nat /\ z[1] < z[2]
      BY <2>1, <2>2, <3>1
    <3>3. z \in OpToRel(<, Nat)
      BY <3>2 DEF OpToRel
    <3>. QED
      BY <1>1, <3>1, <3>3
  <2>. QED
    BY <2>1, <2>2
<1>. QED
  BY <1>2

\* Induction over the rounds of a loop, with a set for what is to be shown.
LEMMA Induction ==
  ASSUME NEW n \in Nat, NEW K, 0 \in K,
         \A k \in 0 .. n - 1 : k \in K => k + 1 \in K
  PROVE  \A k \in 0 .. n : k \in K
<1>. SUFFICES ASSUME NEW m \in 0 .. n, m \notin K PROVE FALSE
  OBVIOUS
<1>. DEFINE T == { k \in 0 .. n : k \notin K }
<1>1. PICK t \in T : \A y \in T : t <= y
  <2>1. T \subseteq Nat /\ T # {}
    OBVIOUS
  <2>. HIDE DEF T
  <2>. QED
    BY <2>1, LeastNumber
<1>2. t - 1 \in 0 .. n - 1 /\ t = (t - 1) + 1
  OBVIOUS
<1>3. t - 1 \in K
  BY <1>1, <1>2
<1>. QED
  BY <1>1, <1>2, <1>3

\* A loop of n rounds that carries a state in S from one round to the next
\* has its states.
Loops(n, S, s, F) ==
  \E f \in [ 0 .. n -> S ] : f[0] = s /\ \A k \in 1 .. n : f[k] = F[<<k, f[k - 1]>>]

LEMMA Recursion ==
  ASSUME NEW n \in Nat, NEW S, NEW s \in S, NEW F \in [ (1 .. n) \X S -> S ]
  PROVE  Loops(n, S, s, F)
<1>. DEFINE Upto(m) == \E f \in [ 0 .. m -> S ] :
                         f[0] = s /\ \A k \in 1 .. m : f[k] = F[<<k, f[k - 1]>>]
            K == { m \in 0 .. n : Upto(m) }
<1>1. Upto(0)
  <2>1. PICK f : f = [ k \in 0 .. 0 |-> s ]
    OBVIOUS
  <2>2. f \in [ 0 .. 0 -> S ] /\ f[0] = s
    BY <2>1
  <2>. QED
    BY <2>2
<1>2. ASSUME NEW m \in 0 .. n - 1, Upto(m)
      PROVE  Upto(m + 1)
  <2>1. PICK f \in [ 0 .. m -> S ] : f[0] = s /\ \A k \in 1 .. m : f[k] = F[<<k, f[k - 1]>>]
    BY <1>2
  <2>2. PICK g : g = [ k \in 0 .. m + 1 |-> IF k = m + 1 THEN F[<<m + 1, f[m]>>] ELSE f[k] ]
    OBVIOUS
  <2>3. F[<<m + 1, f[m]>>] \in S
    <3>1. m + 1 \in 1 .. n /\ f[m] \in S
      OBVIOUS
    <3>. QED
      BY <3>1
  <2>4. g \in [ 0 .. m + 1 -> S ] /\ g[0] = s
    BY <2>1, <2>2, <2>3
  <2>5. ASSUME NEW k \in 1 .. m + 1
        PROVE  g[k] = F[<<k, g[k - 1]>>]
    <3>1. k - 1 \in 0 .. m + 1 /\ k \in 0 .. m + 1 /\ k - 1 # m + 1
      OBVIOUS
    <3>2. g[k - 1] = f[k - 1]
      BY <2>2, <3>1
    <3>3. CASE k = m + 1
      <4>1. k - 1 = m /\ g[k] = F[<<m + 1, f[m]>>]
        BY <2>2, <3>1, <3>3
      <4>. QED
        BY <3>2, <3>3, <4>1
    <3>4. CASE k # m + 1
      <4>1. k \in 1 .. m /\ g[k] = f[k]
        BY <2>2, <3>1, <3>4
      <4>. QED
        BY <2>1, <3>2, <4>1
    <3>. QED
      BY <3>3, <3>4
  <2>. QED
    BY <2>4, <2>5
<1>. HIDE DEF Upto
<1>3. 0 \in K /\ \A m \in 0 .. n - 1 : m \in K => m + 1 \in K
  BY <1>1, <1>2
<1>. HIDE DEF K
<1>4. n \in K
  BY <1>3, Induction
<1>. QED
  BY <1>4 DEF K, Upto, Loops

LEMMA Width == W \in Nat \ {0} /\ ScratchWidth \in Nat /\ W + W <= ScratchWidth
BY WidthAssumption

LEMMA Times ==
  ASSUME NEW j \in Nat
  PROVE  /\ W * j \in Nat /\ W * 0 = 0 /\ W * 1 = W /\ W * (j + 1) = W * j + W
         /\ j * W = W * j
BY Width

LEMMA TimesSum ==
  ASSUME NEW j \in Nat, NEW k \in Nat
  PROVE  W * (j + k) = W * j + W * k /\ j + k \in Nat
BY Width

LEMMA TimesOrder ==
  ASSUME NEW j \in Nat, NEW k \in Nat
  PROVE  /\ j < k <=> W * j + W <= W * k
         /\ j <= k <=> W * j <= W * k
<1>1. j < k => W * j + W <= W * k
  BY Width
<1>2. j <= k => W * j <= W * k
  BY Width
<1>3. k < j => W * k + W <= W * j
  BY Width
<1>4. k <= j => W * k <= W * j
  BY Width
<1>5. W * j \in Nat /\ W * k \in Nat
  BY Times
<1>. QED
  BY <1>1, <1>2, <1>3, <1>4, <1>5, Width

\* A position in a stream of bits is a byte and a place in it.
LEMMA Parts ==
  ASSUME NEW c \in Nat
  PROVE  /\ c \div W \in Nat /\ c % W \in 0 .. W - 1
         /\ c = W * (c \div W) + (c % W)
BY Width

LEMMA Composed ==
  ASSUME NEW j \in Nat, NEW b \in 0 .. W - 1
  PROVE  (W * j + b) \div W = j /\ (W * j + b) % W = b
BY Width

LEMMA Before ==
  ASSUME NEW j \in Nat, NEW k \in Nat, NEW b \in 0 .. W - 1
  PROVE  W * j + b \in Nat /\ (j < k <=> W * j + b < W * k)
<1>1. W * j \in Nat /\ W * k \in Nat
  BY Times
<1>2. (j < k <=> W * j + W <= W * k) /\ (k <= j <=> W * k <= W * j)
  BY TimesOrder
<1>. QED
  BY <1>1, <1>2, Width

-----------------------------------------------------------------------------
(***************************************************************************)
(* Bytes and the patterns of their bits.                                   *)
(***************************************************************************)
Bit(x, k) == IF W - k \in x THEN 1 ELSE 0

\* The rounds of Byte.
Upper(x, f) == f = [ k \in 0 .. W |-> IF k = 0 THEN 0 ELSE 2 * f[k - 1] + Bit(x, k) ]

LEMMA UpperExists ==
  ASSUME NEW x
  PROVE  \E f : Upper(x, f) /\ Byte(x) = f[W]
<1>. DEFINE F == [ z \in (1 .. W) \X Nat |-> 2 * z[2] + Bit(x, z[1]) ]
<1>1. F \in [ (1 .. W) \X Nat -> Nat ]
  <2>1. \A k : Bit(x, k) \in Nat
    BY DEF Bit
  <2>. QED
    BY <2>1
<1>2. \A k \in 1 .. W, a \in Nat : F[<<k, a>>] = 2 * a + Bit(x, k)
  OBVIOUS
<1>. HIDE DEF F
<1>3. PICK g \in [ 0 .. W -> Nat ] : g[0] = 0 /\ \A k \in 1 .. W : g[k] = F[<<k, g[k - 1]>>]
  <2>1. 0 \in Nat /\ W \in Nat
    BY Width
  <2>2. Loops(W, Nat, 0, F)
    BY <1>1, <2>1, Recursion
  <2>. QED
    BY <2>2 DEF Loops
<1>4. ASSUME NEW k \in 0 .. W
      PROVE  g[k] = IF k = 0 THEN 0 ELSE 2 * g[k - 1] + Bit(x, k)
  <2>1. k # 0 => k \in 1 .. W /\ k - 1 \in 0 .. W
    BY Width
  <2>. QED
    BY <1>2, <1>3, <2>1
<1>5. g = [ k \in 0 .. W |-> IF k = 0 THEN 0 ELSE 2 * g[k - 1] + (IF W - k \in x THEN 1 ELSE 0) ]
  BY <1>4 DEF Bit
<1>6. \E f : f = [ k \in 0 .. W |-> IF k = 0 THEN 0 ELSE 2 * f[k - 1] + (IF W - k \in x THEN 1 ELSE 0) ]
  BY <1>5
<1>. DEFINE upper == CHOOSE f : f = [ k \in 0 .. W |-> IF k = 0 THEN 0 ELSE 2 * f[k - 1] + (IF W - k \in x THEN 1 ELSE 0) ]
<1>7. upper = [ k \in 0 .. W |-> IF k = 0 THEN 0 ELSE 2 * upper[k - 1] + (IF W - k \in x THEN 1 ELSE 0) ]
  BY <1>6
<1>8. Byte(x) = upper[W]
  BY DEF Byte
<1>. HIDE DEF upper
<1>9. Upper(x, upper)
  BY <1>7 DEF Upper, Bit
<1>. QED
  BY <1>8, <1>9

LEMMA UpperType ==
  ASSUME NEW x, NEW f, Upper(x, f)
  PROVE  /\ f[0] = 0
         /\ \A k \in 0 .. W : f[k] \in Nat
         /\ \A k \in 0 .. W - 1 : f[k + 1] = 2 * f[k] + Bit(x, k + 1)
         /\ x = {} => f[W] = 0
<1>1. f[0] = 0 /\ \A k \in 0 .. W - 1 : f[k + 1] = 2 * f[k] + Bit(x, k + 1)
  <2>1. 0 \in 0 .. W /\ \A k \in 0 .. W - 1 : k + 1 \in 0 .. W /\ (k + 1) - 1 = k /\ k + 1 # 0
    BY Width
  <2>. QED
    BY <2>1 DEF Upper
<1>2. \A k \in 0 .. W : k \in { j \in 0 .. W : f[j] \in Nat }
  <2>. DEFINE K == { j \in 0 .. W : f[j] \in Nat }
  <2>1. 0 \in K
    BY <1>1, Width
  <2>2. ASSUME NEW k \in 0 .. W - 1, k \in K PROVE k + 1 \in K
    <3>1. Bit(x, k + 1) \in Nat /\ f[k] \in Nat /\ f[k + 1] = 2 * f[k] + Bit(x, k + 1)
      BY <1>1, <2>2 DEF Bit
    <3>. QED
      BY <3>1, Width
  <2>. HIDE DEF K
  <2>3. \A k \in 0 .. W : k \in K
    BY <2>1, <2>2, Width, Induction
  <2>. QED
    BY <2>3 DEF K
<1>3. ASSUME x = {} PROVE f[W] = 0
  <2>. DEFINE K == { j \in 0 .. W : f[j] = 0 }
  <2>1. 0 \in K
    BY <1>1, Width
  <2>2. ASSUME NEW k \in 0 .. W - 1, k \in K PROVE k + 1 \in K
    <3>1. Bit(x, k + 1) = 0 /\ f[k] = 0 /\ f[k + 1] = 2 * f[k] + Bit(x, k + 1)
      BY <1>1, <1>3, <2>2 DEF Bit
    <3>. QED
      BY <3>1, Width
  <2>. HIDE DEF K
  <2>3. W \in K
    BY <2>1, <2>2, Width, Induction
  <2>. QED
    BY <2>3 DEF K
<1>. QED
  BY <1>1, <1>2, <1>3

LEMMA Halves ==
  ASSUME NEW a \in Nat, NEW b \in Nat, NEW i \in {0, 1}, NEW j \in {0, 1},
         2 * a + i = 2 * b + j
  PROVE  a = b /\ i = j
OBVIOUS

\* Different patterns are different numbers.
LEMMA BytesDiffer ==
  ASSUME NEW x \in Patterns, NEW y \in Patterns, Byte(x) = Byte(y)
  PROVE  x = y
<1>1. PICK f : Upper(x, f) /\ Byte(x) = f[W]
  BY UpperExists
<1>2. PICK g : Upper(y, g) /\ Byte(y) = g[W]
  BY UpperExists
<1>. DEFINE K == { j \in 0 .. W : f[W - j] = g[W - j] }
<1>3. ASSUME NEW k \in 0 .. W - 1, f[k + 1] = g[k + 1]
      PROVE  f[k] = g[k] /\ Bit(x, k + 1) = Bit(y, k + 1)
  <2>1. /\ f[k] \in Nat /\ f[k + 1] = 2 * f[k] + Bit(x, k + 1)
        /\ g[k] \in Nat /\ g[k + 1] = 2 * g[k] + Bit(y, k + 1)
    <3>1. k \in 0 .. W
      BY Width
    <3>. QED
      BY <1>1, <1>2, <3>1, UpperType
  <2>2. Bit(x, k + 1) \in {0, 1} /\ Bit(y, k + 1) \in {0, 1}
    BY DEF Bit
  <2>3. 2 * f[k] + Bit(x, k + 1) = 2 * g[k] + Bit(y, k + 1)
    BY <1>3, <2>1
  <2>. QED
    BY <2>1, <2>2, <2>3, Halves, ZenonT(30)
<1>4. \A j \in 0 .. W : j \in K
  <2>1. 0 \in K
    <3>1. W - 0 = W /\ 0 \in 0 .. W
      BY Width
    <3>. QED
      BY <1>1, <1>2, <3>1
  <2>2. ASSUME NEW j \in 0 .. W - 1, j \in K PROVE j + 1 \in K
    <3>1. /\ W - (j + 1) \in 0 .. W - 1 /\ (W - (j + 1)) + 1 = W - j /\ j + 1 \in 0 .. W
      BY Width
    <3>2. f[W - j] = g[W - j]
      BY <2>2
    <3>3. f[W - (j + 1)] = g[W - (j + 1)]
      BY <1>3, <3>1, <3>2
    <3>. QED
      BY <3>1, <3>3
  <2>. HIDE DEF K
  <2>. QED
    BY <2>1, <2>2, Width, Induction
<1>5. ASSUME NEW b \in 0 .. W - 1 PROVE b \in x <=> b \in y
  <2>1. PICK k \in 0 .. W - 1 : k = W - 1 - b
    BY Width
  <2>2. W - (k + 1) = b /\ W - (W - (k + 1)) = k + 1 /\ b \in 0 .. W
    BY <2>1, Width
  <2>3. f[k + 1] = g[k + 1]
    BY <1>4, <2>2
  <2>4. Bit(x, k + 1) = Bit(y, k + 1)
    BY <1>3, <2>3
  <2>. QED
    BY <2>2, <2>4 DEF Bit
<1>. QED
  BY <1>5 DEF Patterns

LEMMA BytesAreBits ==
  /\ Bytes \subseteq Nat /\ 0 \in Bytes /\ Bits(0) = {}
  /\ \A x \in Patterns : Byte(x) \in Bytes /\ Bits(Byte(x)) = x
  /\ \A n \in Bytes : Bits(n) \in Patterns /\ Byte(Bits(n)) = n
<1>1. \A x \in Patterns : Byte(x) \in Nat
  BY UpperExists, UpperType, Width
<1>2. {} \in Patterns /\ Byte({}) = 0
  BY UpperExists, UpperType DEF Patterns
<1>3. ASSUME NEW n \in Bytes
      PROVE  Bits(n) \in Patterns /\ Byte(Bits(n)) = n
  <2>1. \E x \in Patterns : Byte(x) = n
    BY DEF Bytes
  <2>2. Bits(n) = CHOOSE x \in Patterns : Byte(x) = n
    BY DEF Bits, BitsOf
  <2>. QED
    BY <2>1, <2>2
<1>4. ASSUME NEW x \in Patterns
      PROVE  Byte(x) \in Bytes /\ Bits(Byte(x)) = x
  <2>1. Byte(x) \in Bytes
    BY DEF Bytes
  <2>. QED
    BY <1>3, <2>1, BytesDiffer
<1>. QED
  BY <1>1, <1>2, <1>3, <1>4 DEF Bytes

-----------------------------------------------------------------------------
(***************************************************************************)
(* Words and streams of bits as sets of the positions of their ones.       *)
(***************************************************************************)
Ones(s) == { c \in Nat : c \div W < Len(s) /\ c % W \in Bits(s[(c \div W) + 1]) }

\* The value of n bits from a on.
Slice(S, a, n) == { c \in 0 .. n - 1 : a + c \in S }

LEMMA Shifted ==
  ASSUME NEW x \in SUBSET Nat, NEW n \in Nat, NEW c \in Nat
  PROVE  /\ c \in Shl(x, n) <=> c >= n /\ c - n \in x
         /\ c \in Shr(x, n) <=> c + n \in x
         /\ c \in Low(x, n) <=> c < n /\ c \in x
         /\ Shl(x, n) \subseteq Nat /\ Shr(x, n) \subseteq Nat /\ Low(x, n) \subseteq Nat
         /\ Slice(x, c, n) \in SUBSET (0 .. n - 1)
<1>1. c \in Shl(x, n) <=> c >= n /\ c - n \in x
  <2>1. ASSUME c \in Shl(x, n) PROVE c >= n /\ c - n \in x
    BY <2>1 DEF Shl
  <2>2. ASSUME c >= n, c - n \in x PROVE c \in Shl(x, n)
    <3>1. PICK b \in x : b = c - n
      BY <2>2
    <3>2. c = b + n
      BY <3>1
    <3>. QED
      BY <3>2 DEF Shl
  <2>. QED
    BY <2>1, <2>2
<1>2. c \in Shr(x, n) <=> c + n \in x
  <2>1. ASSUME c \in Shr(x, n) PROVE c + n \in x
    BY <2>1 DEF Shr
  <2>2. ASSUME c + n \in x PROVE c \in Shr(x, n)
    <3>1. PICK b \in x : b = c + n
      BY <2>2
    <3>2. c = b - n /\ b >= n
      BY <3>1
    <3>. QED
      BY <3>2 DEF Shr
  <2>. QED
    BY <2>1, <2>2
<1>3. Shl(x, n) \subseteq Nat /\ Shr(x, n) \subseteq Nat /\ Low(x, n) \subseteq Nat
  <2>1. Shl(x, n) \subseteq Nat
    BY DEF Shl
  <2>2. Shr(x, n) \subseteq Nat
    BY DEF Shr
  <2>3. Low(x, n) \subseteq Nat
    BY DEF Low
  <2>. QED
    BY <2>1, <2>2, <2>3
<1>4. /\ c \in Low(x, n) <=> c < n /\ c \in x
      /\ Slice(x, c, n) \in SUBSET (0 .. n - 1)
  BY DEF Low, Slice
<1>. QED
  BY <1>1, <1>2, <1>3, <1>4

LEMMA OnesAt ==
  ASSUME NEW s \in Seq(Bytes), NEW j \in Nat, NEW b \in 0 .. W - 1
  PROVE  W * j + b \in Ones(s) <=> j < Len(s) /\ b \in Bits(s[j + 1])
<1>1. W * j + b \in Nat
  BY Times, Width
<1>. QED
  BY <1>1, Composed DEF Ones

LEMMA OnesBelow ==
  ASSUME NEW s \in Seq(Bytes)
  PROVE  /\ Ones(s) \in SUBSET Nat /\ W * Len(s) \in Nat
         /\ \A c \in Ones(s) : c < W * Len(s)
<1>1. Len(s) \in Nat /\ W * Len(s) \in Nat
  BY Times
<1>2. ASSUME NEW c \in Ones(s) PROVE c \in Nat /\ c < W * Len(s)
  <2>1. c \in Nat /\ c \div W < Len(s)
    BY DEF Ones
  <2>2. PICK j \in Nat, b \in 0 .. W - 1 : c = W * j + b /\ j = c \div W
    BY <2>1, Parts
  <2>. QED
    BY <1>1, <2>1, <2>2, Before
<1>. QED
  BY <1>1, <1>2

LEMMA OnesConcat ==
  ASSUME NEW s \in Seq(Bytes), NEW t \in Seq(Bytes)
  PROVE  Ones(s \o t) = Ones(s) \union Shl(Ones(t), W * Len(s))
<1>. DEFINE u == s \o t
<1>1. /\ u \in Seq(Bytes) /\ Len(u) = Len(s) + Len(t) /\ Len(s) \in Nat /\ Len(t) \in Nat
      /\ \A i \in 1 .. Len(s) : u[i] = s[i]
      /\ \A i \in 1 .. Len(t) : u[Len(s) + i] = t[i]
  BY ConcatProperties
<1>. HIDE DEF u
<1>2. W * Len(s) \in Nat /\ Ones(t) \in SUBSET Nat /\ Ones(s) \in SUBSET Nat /\ Ones(u) \in SUBSET Nat
  BY <1>1, OnesBelow
<1>3. ASSUME NEW c \in Nat
      PROVE  c \in Ones(u) <=> c \in Ones(s) \/ (c >= W * Len(s) /\ c - W * Len(s) \in Ones(t))
  <2>1. PICK j \in Nat, b \in 0 .. W - 1 : c = W * j + b
    BY Parts
  <2>2. W * j \in Nat
    BY Times
  <2>3. CASE j < Len(s)
    <3>1. c < W * Len(s)
      BY <1>1, <2>1, <2>3, Before
    <3>2. u[j + 1] = s[j + 1] /\ j < Len(u)
      BY <1>1, <2>3
    <3>3. c \in Ones(u) <=> c \in Ones(s)
      BY <1>1, <2>1, <2>3, <3>2, OnesAt
    <3>. QED
      BY <1>2, <3>1, <3>3
  <2>4. CASE j >= Len(s)
    <3>1. PICK k \in Nat : j = Len(s) + k
      <4>1. j - Len(s) \in Nat /\ j = Len(s) + (j - Len(s))
        BY <1>1, <2>4
      <4>. QED
        BY <4>1
    <3>2. W * j = W * Len(s) + W * k /\ W * k \in Nat
      BY <1>1, <3>1, Times, TimesSum
    <3>3. c >= W * Len(s) /\ c - W * Len(s) = W * k + b
      BY <1>2, <2>1, <3>2, Width
    <3>4. c \notin Ones(s)
      BY <1>1, <2>1, <2>4, OnesAt
    <3>5. k < Len(t) => u[j + 1] = t[k + 1]
      <4>1. k < Len(t) => k + 1 \in 1 .. Len(t) /\ Len(s) + (k + 1) = j + 1
        BY <1>1, <3>1
      <4>. QED
        BY <1>1, <4>1
    <3>6. j < Len(u) <=> k < Len(t)
      BY <1>1, <3>1
    <3>7. c \in Ones(u) <=> W * k + b \in Ones(t)
      BY <1>1, <2>1, <3>5, <3>6, OnesAt
    <3>. QED
      BY <3>3, <3>4, <3>7
  <2>. QED
    BY <1>1, <2>3, <2>4
<1>4. \A c \in Nat : c \in Shl(Ones(t), W * Len(s)) <=> c >= W * Len(s) /\ c - W * Len(s) \in Ones(t)
  BY <1>2, Shifted
<1>5. Shl(Ones(t), W * Len(s)) \subseteq Nat
  BY <1>2, Shifted
<1>6. Ones(u) = Ones(s) \union Shl(Ones(t), W * Len(s))
  <2>1. \A c \in Nat : c \in Ones(u) <=> c \in Ones(s) \union Shl(Ones(t), W * Len(s))
    BY <1>3, <1>4
  <2>. QED
    BY <1>2, <1>5, <2>1
<1>. QED
  BY <1>6 DEF u

LEMMA OnesOfOne ==
  ASSUME NEW x \in Patterns
  PROVE  << Byte(x) >> \in Seq(Bytes) /\ Ones(<< Byte(x) >>) = x
<1>. DEFINE s == << Byte(x) >>
<1>1. s \in Seq(Bytes) /\ Len(s) = 1 /\ s[1] = Byte(x) /\ Bits(s[1]) = x
  BY BytesAreBits
<1>. HIDE DEF s
<1>2. ASSUME NEW c \in Nat PROVE c \in Ones(s) <=> c \in x
  <2>1. PICK j \in Nat, b \in 0 .. W - 1 : c = W * j + b
    BY Parts
  <2>2. CASE j = 0
    <3>1. c = b
      BY <2>1, <2>2, Times
    <3>. QED
      BY <1>1, <2>1, <2>2, <3>1, OnesAt
  <2>3. CASE j >= 1
    <3>1. W * 1 <= W * j /\ W * 1 = W /\ W * j \in Nat
      BY <2>3, Times, TimesOrder
    <3>2. c >= W
      BY <2>1, <3>1, Width
    <3>3. c \notin x
      BY <3>2, Width DEF Patterns
    <3>. QED
      BY <1>1, <2>1, <2>3, <3>3, OnesAt
  <2>. QED
    BY <2>2, <2>3
<1>3. x \subseteq Nat
  BY Width DEF Patterns
<1>. QED
  BY <1>1, <1>2, <1>3, OnesBelow DEF s

LEMMA OnesOfPart ==
  ASSUME NEW s \in Seq(Bytes), NEW o \in Nat, NEW n \in Nat, o + n <= Len(s)
  PROVE  /\ SubSeq(s, o + 1, o + n) \in Seq(Bytes)
         /\ Len(SubSeq(s, o + 1, o + n)) = n
         /\ Ones(SubSeq(s, o + 1, o + n)) = Slice(Ones(s), W * o, W * n)
<1>. DEFINE t == SubSeq(s, o + 1, o + n)
<1>1. /\ t \in Seq(Bytes) /\ Len(t) = n /\ Len(s) \in Nat
      /\ \A i \in 1 .. n : t[i] = s[o + i]
  <2>1. n = 0 => t = << >>
    OBVIOUS
  <2>2. \A i \in o + 1 .. o + n : i \in 1 .. Len(s)
    OBVIOUS
  <2>3. \A i \in 1 .. n : o + 1 + i - 1 = o + i
    OBVIOUS
  <2>. QED
    BY <2>1, <2>2, <2>3, SubSeqProperties
<1>. HIDE DEF t
<1>2. W * o \in Nat /\ W * n \in Nat /\ Ones(t) \in SUBSET Nat
  BY <1>1, Times, OnesBelow
<1>3. ASSUME NEW c \in Nat
      PROVE  c \in Ones(t) <=> c \in Slice(Ones(s), W * o, W * n)
  <2>1. PICK j \in Nat, b \in 0 .. W - 1 : c = W * j + b
    BY Parts
  <2>2. W * (o + j) = W * o + W * j /\ W * j \in Nat /\ o + j \in Nat
    BY Times, TimesSum
  <2>3. W * o + c = W * (o + j) + b
    BY <1>2, <2>1, <2>2, Width
  <2>4. CASE j < n
    <3>1. c \in 0 .. W * n - 1
      BY <1>2, <2>1, <2>4, Before
    <3>2. o + j < Len(s) /\ t[j + 1] = s[(o + j) + 1]
      <4>1. j + 1 \in 1 .. n /\ o + (j + 1) = (o + j) + 1
        BY <2>4
      <4>. QED
        BY <1>1, <2>4, <4>1
    <3>3. c \in Ones(t) <=> b \in Bits(s[(o + j) + 1])
      BY <1>1, <2>1, <2>4, <3>2, OnesAt
    <3>4. W * o + c \in Ones(s) <=> b \in Bits(s[(o + j) + 1])
      BY <2>2, <2>3, <3>2, OnesAt
    <3>. QED
      BY <3>1, <3>3, <3>4 DEF Slice
  <2>5. CASE j >= n
    <3>2. c \notin 0 .. W * n - 1
      BY <1>2, <2>1, <2>5, Before
    <3>3. c \notin Ones(t)
      BY <1>1, <2>1, <2>5, OnesAt
    <3>. QED
      BY <3>2, <3>3 DEF Slice
  <2>. QED
    BY <2>4, <2>5
<1>4. Slice(Ones(s), W * o, W * n) \subseteq Nat
  BY <1>2 DEF Slice
<1>5. Ones(t) = Slice(Ones(s), W * o, W * n)
  BY <1>2, <1>3, <1>4
<1>. QED
  BY <1>1, <1>5 DEF t

\* Bytes with the same ones are the same.
LEMMA OnesDiffer ==
  ASSUME NEW s \in Seq(Bytes), NEW t \in Seq(Bytes), Len(s) = Len(t), Ones(s) = Ones(t)
  PROVE  s = t
<1>1. ASSUME NEW i \in 1 .. Len(s) PROVE s[i] = t[i]
  <2>1. PICK j \in Nat : i = j + 1 /\ j < Len(s)
    <3>1. i - 1 \in Nat /\ i = (i - 1) + 1 /\ i - 1 < Len(s)
      OBVIOUS
    <3>. QED
      BY <3>1
  <2>2. s[i] \in Bytes /\ t[i] \in Bytes
    OBVIOUS
  <2>3. Bits(s[i]) \in Patterns /\ Bits(t[i]) \in Patterns
    BY <2>2, BytesAreBits
  <2>4. \A b \in 0 .. W - 1 : b \in Bits(s[i]) <=> b \in Bits(t[i])
    BY <2>1, OnesAt
  <2>5. Bits(s[i]) = Bits(t[i])
    BY <2>3, <2>4 DEF Patterns
  <2>. QED
    BY <2>2, <2>5, BytesAreBits
<1>. QED
  BY <1>1, SeqEqual

LEMMA OnesOfCut ==
  ASSUME NEW n \in Nat, NEW x \in SUBSET (0 .. W * n - 1)
  PROVE  Cut(x, n) \in Seq(Bytes) /\ Len(Cut(x, n)) = n /\ Ones(Cut(x, n)) = x
<1>. DEFINE s == Cut(x, n)
<1>1. W * n \in Nat /\ x \in SUBSET Nat
  BY Times
<1>2. ASSUME NEW j \in Nat
      PROVE  /\ Low(Shr(x, W * j), W) \in Patterns
             /\ \A b \in 0 .. W - 1 : b \in Low(Shr(x, W * j), W) <=> W * j + b \in x
  <2>1. W * j \in Nat
    BY Times
  <2>2. Shr(x, W * j) \in SUBSET Nat
    <3>1. 0 \in Nat
      OBVIOUS
    <3>. QED
      BY <1>1, <2>1, <3>1, Shifted, ZenonT(30)
  <2>3. \A c \in Nat : c \in Low(Shr(x, W * j), W) <=> c < W /\ c + W * j \in x
    BY <1>1, <2>1, <2>2, Shifted, Width
  <2>4. Low(Shr(x, W * j), W) \subseteq Nat
    BY <2>2 DEF Low
  <2>5. \A b \in 0 .. W - 1 : b \in Nat /\ b < W /\ b + W * j = W * j + b
    BY <2>1, Width
  <2>6. \A c \in Nat : c < W => c \in 0 .. W - 1
    BY Width
  <2>. QED
    BY <2>3, <2>4, <2>5, <2>6 DEF Patterns
<1>3. ASSUME NEW i \in 1 .. n
      PROVE  /\ s[i] = Byte(Low(Shr(x, W * (i - 1)), W)) /\ i - 1 \in Nat
             /\ s[i] \in Bytes
  <2>1. s[i] = Byte(Low(Shr(x, W * (i - 1)), W)) /\ i - 1 \in Nat
    BY DEF Cut
  <2>. QED
    BY <1>2, <2>1, BytesAreBits
<1>4. s \in [ 1 .. n -> Bytes ]
  BY <1>3 DEF Cut
<1>. HIDE DEF s
<1>5. s \in Seq(Bytes) /\ Len(s) = n
  BY <1>4
<1>6. ASSUME NEW c \in Nat PROVE c \in Ones(s) <=> c \in x
  <2>1. PICK j \in Nat, b \in 0 .. W - 1 : c = W * j + b
    BY Parts
  <2>2. CASE j < n
    <3>1. j + 1 \in 1 .. n /\ (j + 1) - 1 = j
      BY <2>2
    <3>2. Bits(s[j + 1]) = Low(Shr(x, W * j), W)
      BY <1>2, <1>3, <3>1, BytesAreBits
    <3>. QED
      BY <1>2, <1>5, <2>1, <2>2, <3>2, OnesAt
  <2>3. CASE j >= n
    <3>1. ~ (c < W * n)
      BY <2>1, <2>3, Before
    <3>2. c \notin x
      BY <1>1, <3>1
    <3>. QED
      BY <1>5, <2>1, <2>3, <3>2, OnesAt
  <2>. QED
    BY <2>2, <2>3
<1>7. Ones(s) = x
  BY <1>1, <1>5, <1>6, OnesBelow
<1>. QED
  BY <1>5, <1>7 DEF s

LEMMA OnesOfJoined ==
  ASSUME NEW s \in Seq(Bytes)
  PROVE  Joined(s) = Ones(s)
<1>1. \A i \in 1 .. Len(s) : /\ s[i] \in Bytes /\ i - 1 \in Nat /\ W * (i - 1) \in Nat
                             /\ Bits(s[i]) \in SUBSET Nat /\ Bits(s[i]) \in SUBSET (0 .. W - 1)
  <2>1. \A i \in 1 .. Len(s) : s[i] \in Bytes /\ i - 1 \in Nat
    OBVIOUS
  <2>2. \A x \in Patterns : x \in SUBSET Nat /\ x \in SUBSET (0 .. W - 1)
    BY Width DEF Patterns
  <2>3. \A i \in 1 .. Len(s) : Bits(s[i]) \in Patterns
    BY <2>1, BytesAreBits
  <2>. QED
    BY <2>1, <2>2, <2>3, Times
<1>2. ASSUME NEW c \in Joined(s) PROVE c \in Ones(s)
  <2>1. PICK i \in 1 .. Len(s) : c \in Shl(Bits(s[i]), W * (i - 1))
    BY DEF Joined
  <2>2. PICK b \in Bits(s[i]) : c = b + W * (i - 1)
    BY <2>1 DEF Shl
  <2>3. PICK j \in Nat : j = i - 1 /\ j < Len(s) /\ i = j + 1
    OBVIOUS
  <2>4. b \in 0 .. W - 1 /\ W * j \in Nat
    BY <1>1, <2>3
  <2>5. c = W * j + b
    BY <2>2, <2>3, <2>4
  <2>. QED
    BY <2>2, <2>3, <2>4, <2>5, OnesAt
<1>3. ASSUME NEW c \in Ones(s) PROVE c \in Joined(s)
  <2>1. PICK j \in Nat, b \in 0 .. W - 1 : c = W * j + b
    BY OnesBelow, Parts
  <2>2. j < Len(s) /\ b \in Bits(s[j + 1])
    BY <2>1, OnesAt
  <2>3. j + 1 \in 1 .. Len(s) /\ (j + 1) - 1 = j /\ W * j \in Nat
    BY <2>2, Times
  <2>4. c = b + W * ((j + 1) - 1)
    BY <2>1, <2>3
  <2>5. c \in Shl(Bits(s[j + 1]), W * ((j + 1) - 1))
    BY <2>2, <2>4 DEF Shl
  <2>. QED
    BY <2>3, <2>5 DEF Joined
<1>. QED
  BY <1>2, <1>3

-----------------------------------------------------------------------------
(***************************************************************************)
(* The order of a value's bytes: that of the data, whatever the machines'. *)
(***************************************************************************)
Ordered(s) == IF Endianness = "LittleEndian" THEN s ELSE Backwards(s)

\* A value's ones where it is written as whole bytes.
Placed(x, n) == Ones(ToBytes(x, n))

LEMMA BackwardsType ==
  ASSUME NEW s \in Seq(Bytes)
  PROVE  /\ Backwards(s) \in Seq(Bytes) /\ Len(Backwards(s)) = Len(s)
         /\ Backwards(Backwards(s)) = s
         /\ Len(s) = 1 => Backwards(s) = s
<1>. DEFINE t == Backwards(s)
<1>1. \A i \in 1 .. Len(s) : /\ Len(s) + 1 - i \in 1 .. Len(s) /\ t[i] = s[Len(s) + 1 - i]
                             /\ t[i] \in Bytes /\ Len(s) + 1 - (Len(s) + 1 - i) = i
  BY DEF Backwards
<1>2. t \in [ 1 .. Len(s) -> Bytes ]
  BY <1>1 DEF Backwards
<1>. HIDE DEF t
<1>3. t \in Seq(Bytes) /\ Len(t) = Len(s)
  BY <1>2
<1>. DEFINE u == Backwards(t)
<1>4. \A i \in 1 .. Len(s) : u[i] = t[Len(s) + 1 - i]
  BY <1>3 DEF Backwards
<1>5. \A i \in 1 .. Len(s) : u[i] = s[i]
  BY <1>1, <1>4
<1>6. u \in [ 1 .. Len(s) -> Bytes ]
  <2>1. \A i \in 1 .. Len(s) : u[i] \in Bytes
    BY <1>5
  <2>2. u = [ i \in 1 .. Len(s) |-> u[i] ]
    BY <1>3 DEF Backwards
  <2>. HIDE DEF u
  <2>. QED
    BY <2>1, <2>2
<1>. HIDE DEF u
<1>7. u = s
  BY <1>5, <1>6, SeqEqual
<1>8. Len(s) = 1 => t = s
  <2>1. ASSUME Len(s) = 1 PROVE \A i \in 1 .. Len(s) : t[i] = s[i]
    BY <1>1, <2>1
  <2>. QED
    BY <1>3, <2>1, SeqEqual
<1>. QED
  BY <1>3, <1>7, <1>8 DEF t, u

LEMMA OrderedType ==
  ASSUME NEW s \in Seq(Bytes)
  PROVE  /\ Ordered(s) \in Seq(Bytes) /\ Len(Ordered(s)) = Len(s)
         /\ Ordered(Ordered(s)) = s
         /\ Len(s) = 1 => Ordered(s) = s
         /\ Endianness = "LittleEndian" => Ordered(s) = s
BY BackwardsType DEF Ordered

LEMMA ToBytesOrdered ==
  ASSUME NEW n \in Nat, NEW x \in SUBSET (0 .. W * n - 1)
  PROVE  ToBytes(x, n) = Ordered(Cut(x, n))
<1>1. Cut(x, n) \in Seq(Bytes)
  BY OnesOfCut
<1>2. WriterSystem \in {"LittleEndian", "BigEndian"} /\ Endianness \in {"LittleEndian", "BigEndian"}
  BY EndiannessAssumption DEF EndiannessType
<1>. QED
  BY <1>1, <1>2, BackwardsType DEF ToBytes, Swapped, ShouldSwap, InMemory, Ordered

LEMMA FromBytesOrdered ==
  ASSUME NEW s \in Seq(Bytes)
  PROVE  FromBytes(s) = Ones(Ordered(s))
<1>1. ReaderSystem \in {"LittleEndian", "BigEndian"} /\ Endianness \in {"LittleEndian", "BigEndian"}
  BY EndiannessAssumption DEF EndiannessType
<1>2. InMemory(Swapped(s, ReaderSystem), ReaderSystem) = Ordered(s)
  BY <1>1, BackwardsType DEF Swapped, ShouldSwap, InMemory, Ordered
<1>. QED
  BY <1>2, OrderedType, OnesOfJoined DEF FromBytes

LEMMA PlacedType ==
  ASSUME NEW n \in Nat, NEW x \in SUBSET (0 .. W * n - 1)
  PROVE  /\ ToBytes(x, n) \in Seq(Bytes) /\ Len(ToBytes(x, n)) = n
         /\ Placed(x, n) \in SUBSET (0 .. W * n - 1)
         /\ n = 1 => Placed(x, n) = x
         /\ Endianness = "LittleEndian" => Placed(x, n) = x
<1>1. Cut(x, n) \in Seq(Bytes) /\ Len(Cut(x, n)) = n /\ Ones(Cut(x, n)) = x
  BY OnesOfCut
<1>2. ToBytes(x, n) \in Seq(Bytes) /\ Len(ToBytes(x, n)) = n
  BY <1>1, ToBytesOrdered, OrderedType
<1>3. Placed(x, n) \in SUBSET (0 .. W * n - 1)
  <2>1. /\ Placed(x, n) \in SUBSET Nat /\ W * n \in Nat
        /\ \A c \in Placed(x, n) : c < W * n
    BY <1>2, OnesBelow DEF Placed
  <2>. QED
    BY <2>1
<1>4. n = 1 \/ Endianness = "LittleEndian" => Placed(x, n) = x
  BY <1>1, ToBytesOrdered, OrderedType DEF Placed
<1>. QED
  BY <1>2, <1>3, <1>4

LEMMA PlacedDiffer ==
  ASSUME NEW n \in Nat, NEW x \in SUBSET (0 .. W * n - 1), NEW y \in SUBSET (0 .. W * n - 1),
         Placed(x, n) = Placed(y, n)
  PROVE  x = y
<1>1. /\ Cut(x, n) \in Seq(Bytes) /\ Ones(Cut(x, n)) = x
      /\ Cut(y, n) \in Seq(Bytes) /\ Ones(Cut(y, n)) = y
  BY OnesOfCut
<1>2. ToBytes(x, n) = ToBytes(y, n)
  BY PlacedType, OnesDiffer DEF Placed
<1>3. Ordered(Cut(x, n)) = Ordered(Cut(y, n))
  BY <1>2, ToBytesOrdered
<1>4. Cut(x, n) = Cut(y, n)
  BY <1>1, <1>3, OrderedType
<1>. QED
  BY <1>1, <1>4

LEMMA PlacedBack ==
  ASSUME NEW s \in Seq(Bytes)
  PROVE  /\ FromBytes(s) \in SUBSET (0 .. W * Len(s) - 1)
         /\ Placed(FromBytes(s), Len(s)) = Ones(s)
<1>. DEFINE t == Ordered(s)
            x == Ones(t)
            n == Len(s)
<1>1. t \in Seq(Bytes) /\ Len(t) = n /\ Ordered(t) = s /\ n \in Nat
  BY OrderedType
<1>2. FromBytes(s) = x
  BY FromBytesOrdered
<1>. HIDE DEF t, n
<1>3. x \in SUBSET (0 .. W * n - 1)
  <2>1. /\ x \in SUBSET Nat /\ W * n \in Nat
        /\ \A c \in x : c < W * n
    BY <1>1, OnesBelow
  <2>. HIDE DEF x
  <2>. QED
    BY <2>1
<1>4. Cut(x, n) = t
  <2>1. Cut(x, n) \in Seq(Bytes) /\ Len(Cut(x, n)) = n /\ Ones(Cut(x, n)) = x
    <3>. HIDE DEF x
    <3>. QED
      BY <1>1, <1>3, OnesOfCut
  <2>. QED
    BY <1>1, <2>1, OnesDiffer
<1>5. ToBytes(x, n) = s
  <2>1. ToBytes(x, n) = Ordered(Cut(x, n))
    <3>. HIDE DEF x
    <3>. QED
      BY <1>1, <1>3, ToBytesOrdered
  <2>. QED
    BY <1>1, <1>4, <2>1
<1>. QED
  BY <1>2, <1>3, <1>5 DEF Placed, n

-----------------------------------------------------------------------------
(***************************************************************************)
(* The output adapter in its wrapper.                                      *)
(***************************************************************************)
WriterOK(w) == /\ w \in Writer(Bytes)
               /\ w.currOffset = Len(w.bytes) /\ w.bufferSize = Len(w.bytes)
               /\ w.biggestCurrentPos = 0

Packers == { p \in [ w : Writer(Bytes), scratch : SUBSET Nat, scratchBits : 0 .. W - 1 ] :
               WriterOK(p.w) }

\* Between calls nothing is in the scratch above the bits that it counts.
Clean(p) == p \in Packers /\ p.scratch \in SUBSET (0 .. p.scratchBits - 1)

\* The stream of bits a packer stands for, and its length.
Start(p) == W * Len(p.w.bytes)
Total(p) == Start(p) + p.scratchBits
All(p)   == Ones(p.w.bytes) \union Shl(p.scratch, Start(p))

LEMMA PutBytesAppends ==
  ASSUME NEW w, WriterOK(w), NEW d \in Seq(Bytes)
  PROVE  WriterOK(PutBytes(w, d)) /\ PutBytes(w, d).bytes = w.bytes \o d
<1>. DEFINE n == Len(w.bytes)
            size == n + Len(d)
            r == MaybeResize(w, size, size, 0)
            q == PutBytes(w, d)
            s == w.bytes \o d
<1>1. /\ w.bytes \in Seq(Bytes) /\ n \in Nat /\ Len(d) \in Nat /\ size \in Nat
      /\ w.currOffset = n /\ w.bufferSize = n /\ w.biggestCurrentPos = 0
      /\ w.beginIt \in Nat /\ w.block \in Nat
      /\ w = [ currOffset |-> w.currOffset, bufferSize |-> w.bufferSize,
               biggestCurrentPos |-> w.biggestCurrentPos, beginIt |-> w.beginIt,
               bytes |-> w.bytes, block |-> w.block ]
  BY DEF WriterOK, Writer
<1>2. q = [ r EXCEPT !.bytes = Overwrite(r.bytes, n, d), !.currOffset = size ]
  BY <1>1 DEF PutBytes, WriteBytes
<1>3. /\ s \in Seq(Bytes) /\ Len(s) = size
      /\ \A i \in 1 .. size : s[i] = IF i <= n THEN w.bytes[i] ELSE d[i - n]
  BY <1>1, ConcatProperties
<1>. HIDE DEF s
<1>4. \E a \in Seq(Bytes \union {0}) :
        /\ r.bytes = a /\ Len(a) = size /\ \A i \in 1 .. n : a[i] = w.bytes[i]
  <2>1. CASE size > n
    <3>1. r.bytes = Resized(w.bytes, size)
      BY <1>1, <2>1 DEF MaybeResize, NeedsRoom, DoResize
    <3>2. Resized(w.bytes, size) \in [ 1 .. size -> Bytes \union {0} ]
      BY <1>1 DEF Resized
    <3>3. \A i \in 1 .. n : Resized(w.bytes, size)[i] = w.bytes[i]
      BY <1>1 DEF Resized
    <3>4. Resized(w.bytes, size) \in Seq(Bytes \union {0}) /\ Len(Resized(w.bytes, size)) = size
      <4>1. size \in Nat
        BY <1>1
      <4>. HIDE DEF size
      <4>. QED
        BY <3>2, <4>1
    <3>. QED
      BY <3>1, <3>3, <3>4
  <2>2. CASE size = n
    <3>1. r.bytes = w.bytes
      BY <1>1, <2>2 DEF MaybeResize, NeedsRoom
    <3>2. w.bytes \in Seq(Bytes \union {0})
      BY <1>1
    <3>. QED
      BY <2>2, <3>1, <3>2
  <2>. QED
    BY <1>1, <2>1, <2>2
<1>5. PICK a \in Seq(Bytes \union {0}) :
        /\ r.bytes = a /\ Len(a) = size /\ \A i \in 1 .. n : a[i] = w.bytes[i]
  BY <1>4
<1>6. Overwrite(a, n, d) = s
  <2>1. \A i \in 1 .. size : Overwrite(a, n, d)[i] = s[i]
    <3>1. \A i \in 1 .. size : i \in n + 1 .. n + Len(d) <=> ~(i <= n)
      BY <1>1
    <3>2. \A i \in 1 .. size : i <= n => i \in 1 .. n
      BY <1>1
    <3>. QED
      BY <1>1, <1>3, <1>5, <3>1, <3>2 DEF Overwrite
  <2>2. Overwrite(a, n, d) = [ i \in 1 .. size |-> Overwrite(a, n, d)[i] ]
    BY <1>5 DEF Overwrite
  <2>3. s = [ i \in 1 .. size |-> s[i] ]
    BY <1>3
  <2>. QED
    BY <2>1, <2>2, <2>3
<1>7. /\ r.bufferSize = size /\ r.biggestCurrentPos = 0 /\ r.beginIt \in Nat /\ r.block \in Nat
      /\ r = [ currOffset |-> r.currOffset, bufferSize |-> r.bufferSize,
               biggestCurrentPos |-> r.biggestCurrentPos, beginIt |-> r.beginIt,
               bytes |-> r.bytes, block |-> r.block ]
  <2>1. CASE size > n
    BY <1>1, <2>1 DEF MaybeResize, NeedsRoom, DoResize
  <2>2. CASE size = n
    BY <1>1, <2>2 DEF MaybeResize, NeedsRoom
  <2>. QED
    BY <1>1, <2>1, <2>2
<1>. HIDE DEF r, q
<1>8. q = [ currOffset |-> size, bufferSize |-> size, biggestCurrentPos |-> 0,
            beginIt |-> r.beginIt, bytes |-> s, block |-> r.block ]
  BY <1>2, <1>5, <1>6, <1>7
<1>9. q \in Writer(Bytes) /\ q.bytes = s /\ q.currOffset = size /\ q.bufferSize = size
      /\ q.biggestCurrentPos = 0
  BY <1>1, <1>3, <1>7, <1>8 DEF Writer
<1>10. WriterOK(q)
  BY <1>3, <1>9 DEF WriterOK
<1>. QED
  BY <1>9, <1>10 DEF q, s

LEMMA PackerType ==
  ASSUME NEW p \in Packers
  PROVE  /\ p.w.bytes \in Seq(Bytes) /\ Len(p.w.bytes) \in Nat /\ WriterOK(p.w)
         /\ p.scratch \in SUBSET Nat /\ p.scratchBits \in 0 .. W - 1 /\ p.scratchBits \in Nat
         /\ Start(p) \in Nat /\ Total(p) \in Nat /\ Total(p) = Start(p) + p.scratchBits
         /\ Ones(p.w.bytes) \in SUBSET Nat /\ All(p) \in SUBSET Nat
         /\ \A c \in Ones(p.w.bytes) : c < Start(p)
         /\ p = [ w |-> p.w, scratch |-> p.scratch, scratchBits |-> p.scratchBits ]
         /\ WrittenBytesCount(p.w) = Len(p.w.bytes)
<1>1. /\ p.w.bytes \in Seq(Bytes) /\ Len(p.w.bytes) \in Nat /\ WriterOK(p.w)
      /\ p.scratch \in SUBSET Nat /\ p.scratchBits \in 0 .. W - 1 /\ p.scratchBits \in Nat
      /\ p = [ w |-> p.w, scratch |-> p.scratch, scratchBits |-> p.scratchBits ]
  BY Width DEF Packers, WriterOK, Writer
<1>2. Start(p) \in Nat
  BY <1>1, Times DEF Start
<1>3. Total(p) \in Nat /\ Total(p) = Start(p) + p.scratchBits
  BY <1>1, <1>2 DEF Total
<1>4. Ones(p.w.bytes) \in SUBSET Nat /\ \A c \in Ones(p.w.bytes) : c < Start(p)
  BY <1>1, OnesBelow DEF Start
<1>5. All(p) \in SUBSET Nat
  BY <1>1, <1>2, <1>4, Shifted DEF All
<1>6. WrittenBytesCount(p.w) = Len(p.w.bytes)
  BY <1>1 DEF WriterOK, WrittenBytesCount, Larger
<1>. QED
  BY <1>1, <1>2, <1>3, <1>4, <1>5, <1>6

LEMMA AllAt ==
  ASSUME NEW p \in Packers, NEW c \in Nat
  PROVE  c \in All(p) <=> c \in Ones(p.w.bytes) \/ (c >= Start(p) /\ c - Start(p) \in p.scratch)
BY PackerType, Shifted DEF All

LEMMA CleanType ==
  ASSUME NEW p, Clean(p)
  PROVE  p \in Packers /\ \A c \in All(p) : c < Total(p)
<1>1. p \in Packers /\ p.scratch \in SUBSET (0 .. p.scratchBits - 1)
  BY DEF Clean
<1>2. ASSUME NEW c \in All(p) PROVE c < Total(p)
  <2>1. c \in Nat
    BY <1>1, PackerType
  <2>2. c \in Ones(p.w.bytes) \/ (c >= Start(p) /\ c - Start(p) \in p.scratch)
    BY <1>1, <2>1, AllAt
  <2>3. CASE c \in Ones(p.w.bytes)
    <3>1. c < Start(p) /\ Start(p) \in Nat
      BY <1>1, <2>3, PackerType
    <3>2. Total(p) = Start(p) + p.scratchBits /\ p.scratchBits \in Nat
      BY <1>1, PackerType
    <3>. QED
      BY <2>1, <3>1, <3>2
  <2>4. CASE c >= Start(p) /\ c - Start(p) \in p.scratch
    <3>1. p.scratchBits \in Nat /\ Start(p) \in Nat /\ Total(p) = Start(p) + p.scratchBits
      BY <1>1, PackerType
    <3>2. c - Start(p) < p.scratchBits
      BY <1>1, <2>4, <3>1
    <3>. QED
      BY <2>1, <2>4, <3>1, <3>2
  <2>. QED
    BY <2>2, <2>3, <2>4
<1>. QED
  BY <1>1, <1>2

\* A packer that got n bits more, those of y, and maybe others of y.
Adds(p, q, y, n) ==
  /\ q \in Packers /\ Total(q) = Total(p) + n
  /\ \A c \in Nat : c \in All(q) => c \in All(p) \/ (c >= Total(p) /\ c - Total(p) \in y)
  /\ \A c \in Nat : /\ c < Total(p) + n
                    /\ c \in All(p) \/ (c >= Total(p) /\ c - Total(p) \in y)
                    => c \in All(q)

LEMMA JoinAdds ==
  ASSUME NEW p \in Packers, NEW y \in SUBSET Nat, NEW n \in 1 .. W
  PROVE  Adds(p, Join(p, y, n), y, n)
<1>. DEFINE both == p.scratch \union Shl(y, p.scratchBits)
            s == Low(both, ScratchWidth)
            full == p.scratchBits + n
            q == Join(p, y, n)
            one == Byte(Low(s, W))
<1>1. /\ p.w.bytes \in Seq(Bytes) /\ Len(p.w.bytes) \in Nat /\ WriterOK(p.w)
      /\ p.scratch \in SUBSET Nat /\ p.scratchBits \in 0 .. W - 1 /\ p.scratchBits \in Nat
      /\ Start(p) \in Nat /\ Total(p) \in Nat /\ Total(p) = Start(p) + p.scratchBits
      /\ Ones(p.w.bytes) \in SUBSET Nat
      /\ p = [ w |-> p.w, scratch |-> p.scratch, scratchBits |-> p.scratchBits ]
  BY PackerType
<1>2. W \in Nat \ {0} /\ ScratchWidth \in Nat /\ W + W <= ScratchWidth /\ full \in Nat /\ n \in Nat
  BY <1>1, Width
<1>3. /\ s \in SUBSET Nat
      /\ \A d \in Nat : d \in s <=> d < ScratchWidth /\ (d \in p.scratch \/ (d >= p.scratchBits /\ d - p.scratchBits \in y))
  <2>1. /\ both \in SUBSET Nat
        /\ \A d \in Nat : d \in both <=> d \in p.scratch \/ (d >= p.scratchBits /\ d - p.scratchBits \in y)
    <3>1. \A d \in Nat : d \in Shl(y, p.scratchBits) <=> d >= p.scratchBits /\ d - p.scratchBits \in y
      BY <1>1, Shifted
    <3>2. Shl(y, p.scratchBits) \subseteq Nat
      <4>1. 0 \in Nat
        OBVIOUS
      <4>. QED
        BY <1>1, <4>1, Shifted
    <3>. QED
      BY <1>1, <3>1, <3>2
  <2>. HIDE DEF both
  <2>2. \A d \in Nat : d \in s <=> d < ScratchWidth /\ d \in both
    BY <1>2, <2>1, Shifted
  <2>3. s \in SUBSET Nat
    BY <2>1 DEF Low
  <2>. QED
    BY <2>1, <2>2, <2>3
<1>4. /\ full < W => q = [ p EXCEPT !.scratch = s, !.scratchBits = full ]
      /\ ~(full < W) => q = [ p EXCEPT !.w = PutBytes(p.w, << one >>), !.scratch = Shr(s, W),
                                       !.scratchBits = full - W ]
  BY DEF Join
<1>. HIDE DEF s, q
<1>5. Low(s, W) \in Patterns /\ \A d \in Nat : d \in Low(s, W) <=> d < W /\ d \in s
  <2>1. \A d \in Nat : d \in Low(s, W) <=> d < W /\ d \in s
    BY <1>2, <1>3, Shifted
  <2>2. Low(s, W) \subseteq Nat
    BY <1>3 DEF Low
  <2>3. \A d \in Nat : d < W => d \in 0 .. W - 1
    BY <1>2
  <2>. QED
    BY <2>1, <2>2, <2>3 DEF Patterns
<1>6. /\ q \in Packers /\ Total(q) = Total(p) + n
      /\ \A c \in Nat : c \in All(q) <=> c \in Ones(p.w.bytes) \/ (c >= Start(p) /\ c - Start(p) \in s)
  <2>1. CASE full < W
    <3>2. full \in 0 .. W - 1
      BY <1>2, <2>1
    <3>. HIDE DEF full
    <3>1. q.w = p.w /\ q.scratch = s /\ q.scratchBits = full
      BY <1>4, <2>1 DEF Packers
    <3>3. q \in Packers
      <4>1. q \in [ w : Writer(Bytes), scratch : SUBSET Nat, scratchBits : 0 .. W - 1 ]
        BY <1>3, <1>4, <2>1, <3>2 DEF Packers
      <4>. QED
        BY <1>1, <3>1, <4>1 DEF Packers
    <3>4. Start(q) = Start(p)
      BY <3>1 DEF Start
    <3>5. Total(q) = Total(p) + n
      BY <1>1, <1>2, <3>1, <3>4 DEF Total, full
    <3>. QED
      BY <3>1, <3>3, <3>4, <3>5, AllAt
  <2>2. CASE full >= W
    <3>1. q.w = PutBytes(p.w, << one >>) /\ q.scratch = Shr(s, W) /\ q.scratchBits = full - W
      <4>1. PICK v, x, k : v = PutBytes(p.w, << one >>) /\ x = Shr(s, W) /\ k = full - W
        OBVIOUS
      <4>2. q = [ p EXCEPT !.w = v, !.scratch = x, !.scratchBits = k ]
        BY <1>2, <1>4, <2>2, <4>1
      <4>. QED
        BY <4>1, <4>2 DEF Packers
    <3>2. << one >> \in Seq(Bytes) /\ Ones(<< one >>) = Low(s, W) /\ Len(<< one >>) = 1
      BY <1>5, OnesOfOne
    <3>. HIDE DEF one
    <3>3. WriterOK(q.w) /\ q.w.bytes = p.w.bytes \o << one >>
      BY <1>1, <3>1, <3>2, PutBytesAppends
    <3>4. Shr(s, W) \in SUBSET Nat /\ \A d \in Nat : d \in Shr(s, W) <=> d + W \in s
      <4>1. 0 \in Nat /\ W \in Nat
        BY <1>2
      <4>. QED
        BY <1>3, <4>1, Shifted
    <3>5. full - W \in 0 .. W - 1
      BY <1>1, <1>2, <2>2, SMTT(30)
    <3>7. q \in Packers
      <4>1. PICK v \in Writer(Bytes), x \in SUBSET Nat, k \in 0 .. W - 1 :
              v = PutBytes(p.w, << one >>) /\ x = Shr(s, W) /\ k = full - W
        BY <3>1, <3>3, <3>4, <3>5 DEF WriterOK
      <4>2. q = [ p EXCEPT !.w = v, !.scratch = x, !.scratchBits = k ]
        BY <1>2, <1>4, <2>2, <4>1
      <4>3. q \in [ w : Writer(Bytes), scratch : SUBSET Nat, scratchBits : 0 .. W - 1 ]
        BY <4>2 DEF Packers
      <4>. QED
        BY <3>3, <4>3 DEF Packers
    <3>8. Start(q) = Start(p) + W
      <4>1. Len(q.w.bytes) = Len(p.w.bytes) + 1
        BY <1>1, <3>2, <3>3, ConcatProperties
      <4>. QED
        BY <1>1, <4>1, Times DEF Start
    <3>9. Total(q) = Total(p) + n
      BY <1>1, <1>2, <3>1, <3>8, SMTT(30) DEF Total
    <3>10. \A c \in Nat : c \in Ones(q.w.bytes)
             <=> c \in Ones(p.w.bytes) \/ (c >= Start(p) /\ c - Start(p) \in Low(s, W))
      <4>1. Ones(q.w.bytes) = Ones(p.w.bytes) \union Shl(Low(s, W), Start(p))
        BY <1>1, <3>2, <3>3, OnesConcat DEF Start
      <4>2. Low(s, W) \in SUBSET Nat
        BY <1>3 DEF Low
      <4>. QED
        BY <1>1, <4>1, <4>2, Shifted
    <3>11. ASSUME NEW c \in Nat
           PROVE  c \in All(q) <=> c \in Ones(p.w.bytes) \/ (c >= Start(p) /\ c - Start(p) \in s)
      <4>1. c \in All(q) <=> c \in Ones(q.w.bytes) \/ (c >= Start(p) + W /\ c - (Start(p) + W) \in Shr(s, W))
        BY <3>1, <3>7, <3>8, AllAt
      <4>2. CASE c < Start(p)
        BY <1>1, <1>2, <3>10, <4>1, <4>2
      <4>3. CASE c >= Start(p) /\ c < Start(p) + W
        <5>1. c - Start(p) \in Nat /\ c - Start(p) < W
          BY <1>1, <1>2, <4>3, SMTT(30)
        <5>2. c - Start(p) \in Low(s, W) <=> c - Start(p) \in s
          BY <1>5, <5>1
        <5>. QED
          BY <1>1, <1>2, <3>10, <4>1, <4>3, <5>2
      <4>4. CASE c >= Start(p) + W
        <5>1. PICK d \in Nat : d = c - (Start(p) + W)
          BY <1>1, <1>2, <4>4
        <5>2. d + W = c - Start(p) /\ c >= Start(p) /\ ~(d + W < W)
          BY <1>1, <1>2, <4>4, <5>1, SMTT(30)
        <5>3. c - Start(p) \notin Low(s, W)
          BY <1>2, <1>5, <5>1, <5>2
        <5>4. d \in Shr(s, W) <=> c - Start(p) \in s
          BY <3>4, <5>1, <5>2
        <5>. QED
          BY <3>10, <4>1, <4>4, <5>1, <5>2, <5>3, <5>4
      <4>. QED
        BY <1>1, <1>2, <4>2, <4>3, <4>4
    <3>. QED
      BY <3>7, <3>9, <3>11
  <2>. QED
    BY <1>2, <2>1, <2>2
<1>7. ASSUME NEW c \in Nat, c \in All(q)
      PROVE  c \in All(p) \/ (c >= Total(p) /\ c - Total(p) \in y)
  <2>1. CASE c \in Ones(p.w.bytes)
    BY <2>1 DEF All
  <2>2. CASE c >= Start(p) /\ c - Start(p) \in s
    <3>1. PICK d \in Nat : d = c - Start(p)
      BY <1>1, <2>2
    <3>2. d \in p.scratch \/ (d >= p.scratchBits /\ d - p.scratchBits \in y)
      BY <1>3, <2>2, <3>1
    <3>3. d >= p.scratchBits => c >= Total(p) /\ d - p.scratchBits = c - Total(p)
      BY <1>1, <2>2, <3>1
    <3>4. d \in p.scratch => c \in All(p)
      BY <2>2, <3>1, AllAt
    <3>. QED
      BY <3>2, <3>3, <3>4
  <2>. QED
    BY <1>6, <1>7, <2>1, <2>2
<1>8. ASSUME NEW c \in Nat, c < Total(p) + n,
             c \in All(p) \/ (c >= Total(p) /\ c - Total(p) \in y)
      PROVE  c \in All(q)
  <2>1. CASE c \in Ones(p.w.bytes)
    BY <1>6, <2>1
  <2>2. CASE c \notin Ones(p.w.bytes)
    <3>1. c >= Start(p)
      BY <1>1, <1>8, <2>2, AllAt
    <3>2. PICK d \in Nat : d = c - Start(p)
      BY <1>1, <3>1
    <3>3. d < ScratchWidth
      BY <1>1, <1>2, <1>8, <3>1, <3>2, SMTT(30)
    <3>4. d \in p.scratch \/ (d >= p.scratchBits /\ d - p.scratchBits \in y)
      <4>1. CASE c \in All(p)
        BY <2>2, <3>2, <4>1, AllAt
      <4>2. CASE c >= Total(p) /\ c - Total(p) \in y
        <5>1. d >= p.scratchBits /\ d - p.scratchBits = c - Total(p)
          BY <1>1, <3>1, <3>2, <4>2
        <5>. QED
          BY <4>2, <5>1
      <4>. QED
        BY <1>8, <4>1, <4>2
    <3>. QED
      BY <1>3, <1>6, <3>1, <3>2, <3>3, <3>4
  <2>. QED
    BY <2>1, <2>2
<1>9. Adds(p, q, y, n)
  BY <1>6, <1>7, <1>8 DEF Adds
<1>. QED
  BY <1>9 DEF q

LEMMA StepsType ==
  ASSUME NEW n \in Nat
  PROVE  /\ Steps(n) \in Nat /\ n <= W * Steps(n)
         /\ \A k \in 0 .. Steps(n) - 1 : W * k < n
<1>1. W \in Nat \ {0} /\ n + W - 1 \in Nat
  BY Width
<1>2. PICK j \in Nat, b \in 0 .. W - 1 : n + W - 1 = W * j + b /\ j = Steps(n)
  BY <1>1, Parts DEF Steps
<1>3. W * j \in Nat
  BY Times
<1>4. n <= W * j
  BY <1>1, <1>2, <1>3
<1>5. ASSUME NEW k \in 0 .. j - 1 PROVE W * k < n
  <2>0. k \in Nat /\ k < j
    BY <1>2
  <2>1. k \in Nat /\ k < j /\ W * k \in Nat
    BY <2>0, Times
  <2>2. W * k + W <= W * j
    BY <2>1, TimesOrder
  <2>. QED
    BY <1>1, <1>2, <1>3, <2>1, <2>2
<1>. QED
  BY <1>2, <1>4, <1>5

LEMMA SmallerType ==
  ASSUME NEW m \in Nat, NEW n \in Nat
  PROVE  /\ Smaller(m, n) \in Nat /\ Smaller(m, n) <= m /\ Smaller(m, n) <= n
         /\ m <= n => Smaller(m, n) = m
         /\ n <= m => Smaller(m, n) = n
BY DEF Smaller

\* The bits that are joined in each round, and those up to there.
LEMMA Rounds ==
  ASSUME NEW n \in Nat, NEW k \in 0 .. Steps(n) - 1
  PROVE  /\ W * k \in Nat /\ W * k < n /\ n - W * k \in Nat
         /\ Smaller(n - W * k, W) \in 1 .. W
         /\ Smaller(n, W * k) = W * k
         /\ Smaller(n, W * (k + 1)) = W * k + Smaller(n - W * k, W)
<1>1. W * k \in Nat /\ W * (k + 1) = W * k + W /\ W * k < n /\ W \in Nat \ {0}
  <2>1. k \in Nat
    BY StepsType
  <2>. QED
    BY <2>1, StepsType, Times, Width
<1>2. PICK m \in Nat : m = W * k
  BY <1>1
<1>3. m < n /\ n - m \in Nat
  BY <1>1, <1>2
<1>4. Smaller(n - m, W) \in 1 .. W /\ Smaller(n, m) = m
  BY <1>1, <1>3 DEF Smaller
<1>5. Smaller(n, m + W) = m + Smaller(n - m, W)
  BY <1>1, <1>3 DEF Smaller
<1>. QED
  BY <1>1, <1>2, <1>3, <1>4, <1>5

LEMMA AddsMore ==
  ASSUME NEW p, Clean(p), NEW x \in SUBSET Nat, NEW m \in Nat, NEW n \in Nat,
         NEW q, Adds(p, q, x, m), NEW r, Adds(q, r, Shr(x, m), n)
  PROVE  Adds(p, r, x, m + n)
<1>1. /\ p \in Packers /\ q \in Packers /\ r \in Packers
      /\ Total(p) \in Nat /\ Total(q) = Total(p) + m /\ Total(r) = Total(q) + n
  BY CleanType, PackerType DEF Adds
<1>2. \A c \in Nat : c \in Shr(x, m) <=> c + m \in x
  BY Shifted
<1>3. ASSUME NEW c \in Nat, c \in All(r)
      PROVE  c \in All(p) \/ (c >= Total(p) /\ c - Total(p) \in x)
  <2>1. c \in All(q) \/ (c >= Total(q) /\ c - Total(q) \in Shr(x, m))
    BY <1>3 DEF Adds
  <2>2. CASE c \in All(q)
    BY <2>2 DEF Adds
  <2>3. CASE c >= Total(q) /\ c - Total(q) \in Shr(x, m)
    <3>1. c - Total(q) \in Nat /\ (c - Total(q)) + m = c - Total(p) /\ c >= Total(p)
      BY <1>1, <2>3
    <3>. QED
      BY <1>2, <2>3, <3>1
  <2>. QED
    BY <2>1, <2>2, <2>3
<1>4. ASSUME NEW c \in Nat, c < Total(p) + (m + n),
             c \in All(p) \/ (c >= Total(p) /\ c - Total(p) \in x)
      PROVE  c \in All(r)
  <2>1. c < Total(q) + n
    BY <1>1, <1>4
  <2>2. CASE c < Total(q)
    <3>1. c \in All(q)
      BY <1>1, <1>4, <2>2 DEF Adds
    <3>. QED
      BY <2>1, <3>1 DEF Adds
  <2>3. CASE c >= Total(q)
    <3>1. c \notin All(p)
      BY <1>1, <2>3, CleanType
    <3>2. c - Total(q) \in Nat /\ (c - Total(q)) + m = c - Total(p)
      BY <1>1, <2>3
    <3>3. c - Total(q) \in Shr(x, m)
      BY <1>2, <1>4, <3>1, <3>2
    <3>. QED
      BY <2>1, <2>3, <3>3 DEF Adds
  <2>. QED
    BY <1>1, <2>2, <2>3
<1>. QED
  BY <1>1, <1>3, <1>4 DEF Adds

\* A packer that got n bits more, those of y and no others.
Grows(p, q, y, n) ==
  Clean(q) /\ Total(q) = Total(p) + n /\ All(q) = All(p) \union Shl(y, Total(p))

LEMMA AddsAll ==
  ASSUME NEW p, Clean(p), NEW n \in Nat, NEW x \in SUBSET (0 .. n - 1), NEW q, Adds(p, q, x, n)
  PROVE  Grows(p, q, x, n)
<1>1. /\ p \in Packers /\ q \in Packers /\ Total(p) \in Nat /\ Total(q) = Total(p) + n
      /\ Start(q) \in Nat /\ q.scratchBits \in Nat /\ Total(q) = Start(q) + q.scratchBits
      /\ All(p) \in SUBSET Nat /\ All(q) \in SUBSET Nat /\ q.scratch \in SUBSET Nat
  BY CleanType, PackerType DEF Adds
<1>2. x \in SUBSET Nat
  OBVIOUS
<1>3. \A c \in Nat : c \in Shl(x, Total(p)) <=> c >= Total(p) /\ c - Total(p) \in x
  BY <1>1, <1>2, Shifted
<1>4. ASSUME NEW c \in Nat
      PROVE  c \in All(q) <=> c \in All(p) \/ (c >= Total(p) /\ c - Total(p) \in x)
  <2>1. c \in All(p) => c < Total(p) + n
    BY <1>1, CleanType
  <2>2. c >= Total(p) /\ c - Total(p) \in x => c < Total(p) + n
    BY <1>1
  <2>. QED
    BY <2>1, <2>2 DEF Adds
<1>5. Shl(x, Total(p)) \subseteq Nat
  BY <1>1, <1>2, Shifted
<1>6. All(q) = All(p) \union Shl(x, Total(p))
  BY <1>1, <1>3, <1>4, <1>5
<1>7. ASSUME NEW d \in q.scratch PROVE d \in 0 .. q.scratchBits - 1
  <2>1. d \in Nat
    BY <1>1
  <2>2. PICK c \in Nat : c = Start(q) + d
    BY <1>1, <2>1
  <2>3. c \in All(q)
    <3>1. c >= Start(q) /\ c - Start(q) = d
      BY <1>1, <2>1, <2>2
    <3>. QED
      BY <1>1, <1>7, <2>2, <3>1, AllAt
  <2>4. c < Total(q)
    <3>1. CASE c \in All(p)
      BY <1>1, <3>1, CleanType
    <3>2. CASE c >= Total(p) /\ c - Total(p) \in x
      BY <1>1, <3>2
    <3>. QED
      BY <1>4, <2>3, <3>1, <3>2
  <2>. QED
    BY <1>1, <2>1, <2>2, <2>4
<1>. QED
  BY <1>1, <1>6, <1>7 DEF Clean, Grows

LEMMA WriteBitsGrows ==
  ASSUME NEW p, Clean(p), NEW n \in Nat, NEW x \in SUBSET (0 .. n - 1)
  PROVE  Grows(p, WriteBits(p, x, n), x, n)
<1>. DEFINE Next_(q, k) == Join(q, Shr(x, W * (k - 1)), Smaller(n - W * (k - 1), W))
            F == [ z \in (1 .. Steps(n)) \X Packers |-> Next_(z[2], z[1]) ]
<1>1. Steps(n) \in Nat /\ p \in Packers /\ n <= W * Steps(n) /\ x \in SUBSET Nat
  BY StepsType, CleanType
<1>2. ASSUME NEW k \in 1 .. Steps(n), NEW q \in Packers
      PROVE  /\ k - 1 \in 0 .. Steps(n) - 1
             /\ Adds(q, Next_(q, k), Shr(x, W * (k - 1)), Smaller(n - W * (k - 1), W))
             /\ Next_(q, k) \in Packers
  <2>1. k - 1 \in 0 .. Steps(n) - 1
    BY <1>1
  <2>2. W * (k - 1) \in Nat /\ Smaller(n - W * (k - 1), W) \in 1 .. W
    BY <2>1, Rounds
  <2>3. Shr(x, W * (k - 1)) \in SUBSET Nat
    <3>1. 0 \in Nat
      OBVIOUS
    <3>. QED
      BY <1>1, <2>2, <3>1, Shifted
  <2>4. Adds(q, Next_(q, k), Shr(x, W * (k - 1)), Smaller(n - W * (k - 1), W))
    BY <2>2, <2>3, JoinAdds
  <2>. QED
    BY <2>1, <2>4 DEF Adds
<1>. HIDE DEF Next_
<1>3. /\ F \in [ (1 .. Steps(n)) \X Packers -> Packers ]
      /\ \A k \in 1 .. Steps(n), q \in Packers : F[<<k, q>>] = Next_(q, k)
  BY <1>2
<1>. HIDE DEF F
<1>4. Loops(Steps(n), Packers, p, F)
  BY <1>1, <1>3, Recursion
<1>5. PICK g \in [ 0 .. Steps(n) -> Packers ] :
        g[0] = p /\ \A k \in 1 .. Steps(n) : g[k] = F[<<k, g[k - 1]>>]
  BY <1>4 DEF Loops
<1>6. g = [ k \in 0 .. Steps(n) |-> IF k = 0 THEN p ELSE Next_(g[k - 1], k) ]
  <2>1. ASSUME NEW k \in 0 .. Steps(n)
        PROVE  g[k] = IF k = 0 THEN p ELSE Next_(g[k - 1], k)
    <3>1. k # 0 => k \in 1 .. Steps(n) /\ k - 1 \in 0 .. Steps(n)
      BY <1>1
    <3>2. k # 0 => g[k - 1] \in Packers
      BY <3>1
    <3>. QED
      BY <1>3, <1>5, <3>1, <3>2
  <2>. QED
    BY <2>1
<1>7. \E f : f = [ k \in 0 .. Steps(n) |-> IF k = 0 THEN p ELSE Next_(f[k - 1], k) ]
  BY <1>6
<1>. DEFINE round == CHOOSE f : f = [ k \in 0 .. Steps(n) |-> IF k = 0 THEN p ELSE Next_(f[k - 1], k) ]
<1>8. round = [ k \in 0 .. Steps(n) |-> IF k = 0 THEN p ELSE Next_(round[k - 1], k) ]
  BY <1>7
<1>9. WriteBits(p, x, n) = round[Steps(n)]
  BY DEF WriteBits, Next_
<1>. HIDE DEF round
<1>. DEFINE K == { k \in 0 .. Steps(n) : Adds(p, round[k], x, Smaller(n, W * k)) }
<1>10. 0 \in K
  <2>1. round[0] = p /\ Smaller(n, W * 0) = 0
    BY <1>1, <1>8, Times DEF Smaller
  <2>2. Adds(p, p, x, 0)
    <3>1. Total(p) \in Nat /\ Total(p) + 0 = Total(p) /\ p \in Packers
      BY <1>1, PackerType
    <3>2. \A c \in Nat : c < Total(p) => ~ (c >= Total(p))
      BY <3>1
    <3>. QED
      BY <3>1, <3>2 DEF Adds
  <2>. QED
    BY <1>1, <2>1, <2>2
<1>11. ASSUME NEW k \in 0 .. Steps(n) - 1, k \in K
       PROVE  k + 1 \in K
  <2>1. k + 1 \in 1 .. Steps(n) /\ (k + 1) - 1 = k /\ k + 1 \in 0 .. Steps(n) /\ k + 1 # 0
    BY <1>1
  <2>2. PICK q : q = round[k]
    OBVIOUS
  <2>3. round[k + 1] = Next_(q, k + 1)
    BY <1>8, <2>1, <2>2
  <2>4. PICK m \in Nat : m = W * k
    BY Rounds
  <2>5. PICK l \in Nat : l = Smaller(n - m, W)
    <3>1. Smaller(n - W * k, W) \in 1 .. W
      BY Rounds
    <3>. QED
      BY <2>4, <3>1, Width
  <2>6. Adds(p, q, x, m)
    BY <1>11, <2>2, <2>4, Rounds
  <2>7. Adds(q, Next_(q, k + 1), Shr(x, m), l)
    <3>1. q \in Packers
      BY <2>6 DEF Adds
    <3>2. Adds(q, Next_(q, k + 1), Shr(x, W * ((k + 1) - 1)), Smaller(n - W * ((k + 1) - 1), W))
      BY <1>2, <2>1, <3>1
    <3>. QED
      BY <2>1, <2>4, <2>5, <3>2
  <2>8. Adds(p, Next_(q, k + 1), x, m + l)
    BY <1>1, <2>6, <2>7, AddsMore
  <2>9. Smaller(n, W * (k + 1)) = m + l
    BY <2>4, <2>5, Rounds
  <2>. QED
    BY <2>1, <2>3, <2>8, <2>9
<1>. HIDE DEF K
<1>12. Steps(n) \in K
  BY <1>1, <1>10, <1>11, Induction, SMTT(30)
<1>13. Adds(p, round[Steps(n)], x, n)
  <2>1. Smaller(n, W * Steps(n)) = n
    <3>1. PICK m \in Nat : m = W * Steps(n)
      BY <1>1, Times
    <3>2. n <= m
      BY <1>1, <3>1
    <3>. QED
      BY <3>1, <3>2, SmallerType
  <2>. QED
    BY <1>12, <2>1 DEF K
<1>. QED
  BY <1>9, <1>13, AddsAll

LEMMA PackBytesGrows ==
  ASSUME NEW p, Clean(p), NEW n \in Nat, NEW x \in SUBSET (0 .. W * n - 1)
  PROVE  Grows(p, PackBytes(p, x, n), IF p.scratchBits = 0 THEN Placed(x, n) ELSE x, W * n)
<1>1. n * W = W * n /\ W * n \in Nat
  BY Times
<1>2. CASE p.scratchBits # 0
  <2>1. PackBytes(p, x, n) = WriteBits(p, x, W * n)
    BY <1>1, <1>2 DEF PackBytes
  <2>. QED
    BY <1>1, <1>2, <2>1, WriteBitsGrows
<1>3. CASE p.scratchBits = 0
  <2>. DEFINE d == ToBytes(x, n)
  <2>1. PICK v : v = PutBytes(p.w, d)
    OBVIOUS
  <2>2. PICK q : q = [ p EXCEPT !.w = v ]
    OBVIOUS
  <2>3. PackBytes(p, x, n) = q
    BY <1>3, <2>1, <2>2 DEF PackBytes
  <2>4. d \in Seq(Bytes) /\ Len(d) = n /\ Ones(d) = Placed(x, n)
    BY PlacedType DEF Placed
  <2>. HIDE DEF d
  <2>5. p \in Packers /\ p.scratch = {}
    <3>1. p \in Packers /\ p.scratch \in SUBSET (0 .. 0 - 1)
      BY <1>3 DEF Clean
    <3>. QED
      BY <3>1
  <2>6. WriterOK(v) /\ v.bytes = p.w.bytes \o d
    BY <2>1, <2>4, <2>5, PackerType, PutBytesAppends
  <2>7. q.w = v /\ q.scratch = {} /\ q.scratchBits = 0
    BY <1>3, <2>2, <2>5 DEF Packers
  <2>8. q \in Packers
    <3>1. v \in Writer(Bytes)
      BY <2>6 DEF WriterOK
    <3>2. q \in [ w : Writer(Bytes), scratch : SUBSET Nat, scratchBits : 0 .. W - 1 ]
      BY <2>2, <2>5, <3>1 DEF Packers
    <3>. QED
      BY <2>6, <2>7, <3>2 DEF Packers
  <2>9. p.w.bytes \in Seq(Bytes) /\ Len(p.w.bytes) \in Nat /\ Start(p) \in Nat
    BY <2>5, PackerType
  <2>10. Start(q) = Start(p) + W * n
    <3>1. Len(q.w.bytes) = Len(p.w.bytes) + n
      <4>1. Len(p.w.bytes \o d) = Len(p.w.bytes) + Len(d)
        BY <2>4, <2>9, ConcatProperties
      <4>. QED
        BY <2>4, <2>6, <2>7, <4>1
    <3>. QED
      BY <2>9, <3>1, TimesSum DEF Start
  <2>11. Total(q) = Total(p) + W * n /\ Total(p) = Start(p)
    BY <1>1, <1>3, <2>7, <2>9, <2>10 DEF Total
  <2>12. Ones(q.w.bytes) = Ones(p.w.bytes) \union Shl(Placed(x, n), Start(p))
    BY <2>4, <2>6, <2>7, <2>9, OnesConcat DEF Start
  <2>13. \A k : Shl({}, k) = {}
    BY DEF Shl
  <2>14. All(q) = All(p) \union Shl(Placed(x, n), Total(p))
    BY <2>5, <2>7, <2>11, <2>12, <2>13 DEF All
  <2>15. Clean(q)
    BY <2>7, <2>8 DEF Clean
  <2>. QED
    BY <1>3, <2>3, <2>11, <2>14, <2>15 DEF Grows
<1>. QED
  BY <1>2, <1>3

\* The bytes and the bits of a packer, from the length of its stream.
LEMMA TotalIs ==
  ASSUME NEW p \in Packers
  PROVE  /\ Len(p.w.bytes) = Total(p) \div W /\ p.scratchBits = Total(p) % W
         /\ \A k \in Nat : Total(p) = W * k => p.scratchBits = 0 /\ Len(p.w.bytes) = k
<1>1. Len(p.w.bytes) \in Nat /\ p.scratchBits \in 0 .. W - 1 /\ Total(p) = W * Len(p.w.bytes) + p.scratchBits
  BY PackerType DEF Total, Start
<1>2. Len(p.w.bytes) = Total(p) \div W /\ p.scratchBits = Total(p) % W
  BY <1>1, Composed
<1>3. ASSUME NEW k \in Nat, Total(p) = W * k
      PROVE  p.scratchBits = 0 /\ Len(p.w.bytes) = k
  <2>1. 0 \in 0 .. W - 1 /\ W * k + 0 = W * k
    BY Times, Width
  <2>2. (W * k) \div W = k /\ (W * k) % W = 0
    BY <2>1, Composed
  <2>. QED
    BY <1>2, <1>3, <2>2
<1>. QED
  BY <1>2, <1>3

\* The next whole byte.
Aligned(a) == W * Steps(a)

LEMMA AlignedType ==
  ASSUME NEW k \in Nat, NEW b \in 0 .. W - 1
  PROVE  /\ Aligned(W * k + b) = IF b = 0 THEN W * k ELSE W * k + W
         /\ W * k + b + ((W - b) % W) = Aligned(W * k + b)
         /\ W * k + b <= Aligned(W * k + b)
         /\ \E j \in Nat : Aligned(W * k + b) = W * j
<1>1. W \in Nat \ {0} /\ W * k \in Nat /\ W * (k + 1) = W * k + W /\ k + 1 \in Nat
  BY Width, Times
<1>2. Steps(W * k + b) = IF b = 0 THEN k ELSE k + 1
  <2>1. CASE b = 0
    <3>1. W - 1 \in 0 .. W - 1 /\ (W * k + b) + W - 1 = W * k + (W - 1)
      BY <1>1, <2>1
    <3>. QED
      BY <2>1, <3>1, Composed DEF Steps
  <2>2. CASE b # 0
    <3>1. b - 1 \in 0 .. W - 1 /\ (W * k + b) + W - 1 = W * (k + 1) + (b - 1)
      BY <1>1, <2>2
    <3>. QED
      BY <1>1, <2>2, <3>1, Composed DEF Steps
  <2>. QED
    BY <2>1, <2>2
<1>3. Aligned(W * k + b) = IF b = 0 THEN W * k ELSE W * k + W
  BY <1>1, <1>2 DEF Aligned
<1>4. (W - b) % W = IF b = 0 THEN 0 ELSE W - b
  <2>1. CASE b = 0
    <3>1. 0 \in 0 .. W - 1 /\ W * 1 + 0 = W /\ 1 \in Nat
      BY <1>1
    <3>2. (W * 1 + 0) % W = 0
      BY <3>1, Composed
    <3>. QED
      BY <1>1, <2>1, <3>1, <3>2
  <2>2. CASE b # 0
    <3>1. W - b \in 0 .. W - 1 /\ W * 0 + (W - b) = W - b /\ 0 \in Nat
      BY <1>1, <2>2
    <3>2. (W * 0 + (W - b)) % W = W - b
      BY <3>1, Composed
    <3>. QED
      BY <2>2, <3>1, <3>2
  <2>. QED
    BY <2>1, <2>2
<1>5. PICK m \in Nat : m = W * k
  BY <1>1
<1>6. PICK l \in Nat : l = (W - b) % W
  BY <1>1, <1>4
<1>7. PICK a : a = Aligned(W * k + b)
  OBVIOUS
<1>8. W * k + b + ((W - b) % W) = a /\ W * k + b <= a
  BY <1>1, <1>3, <1>4, <1>5, <1>6, <1>7
<1>9. \E j \in Nat : a = W * j
  BY <1>1, <1>2, <1>7 DEF Aligned
<1>. QED
  BY <1>3, <1>7, <1>8, <1>9

LEMMA AlignWriteGrows ==
  ASSUME NEW p, Clean(p)
  PROVE  /\ Grows(p, AlignWrite(p), {}, (W - p.scratchBits) % W)
         /\ Total(AlignWrite(p)) = Aligned(Total(p)) /\ AlignWrite(p).scratchBits = 0
         /\ All(AlignWrite(p)) = All(p)
<1>. DEFINE n == (W - p.scratchBits) % W
            q == AlignWrite(p)
<1>1. /\ p \in Packers /\ Len(p.w.bytes) \in Nat /\ p.scratchBits \in 0 .. W - 1
      /\ Total(p) = W * Len(p.w.bytes) + p.scratchBits
  BY CleanType, PackerType DEF Total, Start
<1>2. n \in Nat
  <2>1. W - p.scratchBits \in Nat
    BY <1>1, Width
  <2>. QED
    BY <2>1, Parts, Width
<1>3. Grows(p, q, {}, n)
  <2>1. q = WriteBits(p, {}, n) /\ {} \in SUBSET (0 .. n - 1)
    BY DEF AlignWrite
  <2>. HIDE DEF n
  <2>. QED
    BY <1>2, <2>1, WriteBitsGrows
<1>4. Total(q) = Aligned(Total(p)) /\ \E j \in Nat : Total(q) = W * j
  <2>1. Total(q) = Total(p) + n
    BY <1>3 DEF Grows
  <2>2. PICK k \in Nat, b \in 0 .. W - 1 : k = Len(p.w.bytes) /\ b = p.scratchBits
    BY <1>1
  <2>3. Total(p) = W * k + b /\ n = (W - b) % W
    BY <1>1, <2>2
  <2>4. Total(p) + n = Aligned(Total(p)) /\ \E j \in Nat : Aligned(Total(p)) = W * j
    BY <2>3, AlignedType
  <2>. QED
    BY <2>1, <2>4
<1>5. q \in Packers
  BY <1>3 DEF Grows, Clean
<1>6. q.scratchBits = 0
  BY <1>4, <1>5, TotalIs
<1>7. All(q) = All(p)
  <2>1. Shl({}, Total(p)) = {}
    BY DEF Shl
  <2>. QED
    BY <1>3, <2>1 DEF Grows
<1>. QED
  BY <1>3, <1>4, <1>6, <1>7

-----------------------------------------------------------------------------
(***************************************************************************)
(* The input adapter in its wrapper.  It is either where the calls have    *)
(* brought it, with the bits from there to the next byte in the scratch,   *)
(* or it has an error, which stays.                                        *)
(***************************************************************************)
Unpackers == { u \in [ r : Reader, scratch : SUBSET Nat, scratchBits : 0 .. W - 1, res : SUBSET Nat ] :
                 u.scratch \subseteq 0 .. u.scratchBits - 1 /\ u.r.overflowOnReadEndPos = TRUE }

\* The bits that were read.
Pos(u) == W * u.r.currOffset - u.scratchBits

Healthy(u, d) == /\ u \in Unpackers
                 /\ u.r.endReadOffset = Len(d) /\ u.r.bufferSize = Len(d)
                 /\ u.r.currOffset <= Len(d) /\ Pos(u) >= 0
                 /\ u.scratch = Slice(Ones(d), Pos(u), u.scratchBits)

Broken(u) == /\ u \in Unpackers
             /\ u.r.endReadOffset = 0 /\ u.r.bufferSize = 0 /\ u.r.currOffset \in RealErrors

LEMMA SliceIs ==
  ASSUME NEW S \in SUBSET Nat, NEW a \in Nat, NEW n \in Nat
  PROVE  /\ Slice(S, a, n) \in SUBSET (0 .. n - 1) /\ Slice(S, a, n) \in SUBSET Nat
         /\ \A c \in Nat : c \in Slice(S, a, n) <=> c < n /\ a + c \in S
BY DEF Slice

\* A longer stretch of bits is a shorter one and what follows it.
LEMMA SliceSum ==
  ASSUME NEW S \in SUBSET Nat, NEW a \in Nat, NEW m \in Nat, NEW n \in Nat
  PROVE  Slice(S, a, m + n) = Slice(S, a, m) \union Shl(Slice(S, a + m, n), m)
<1>1. PICK l \in Nat : l = m + n
  OBVIOUS
<1>2. PICK e \in Nat : e = a + m
  OBVIOUS
<1>3. /\ Slice(S, a, l) \in SUBSET Nat /\ Slice(S, a, m) \in SUBSET Nat
      /\ Slice(S, e, n) \in SUBSET Nat
      /\ \A c \in Nat : c \in Slice(S, a, l) <=> c < l /\ a + c \in S
      /\ \A c \in Nat : c \in Slice(S, a, m) <=> c < m /\ a + c \in S
      /\ \A c \in Nat : c \in Slice(S, e, n) <=> c < n /\ e + c \in S
  BY SliceIs
<1>4. /\ Shl(Slice(S, e, n), m) \subseteq Nat
      /\ \A c \in Nat : c \in Shl(Slice(S, e, n), m) <=> c >= m /\ c - m \in Slice(S, e, n)
  BY <1>3, Shifted
<1>5. ASSUME NEW c \in Nat
      PROVE  c \in Slice(S, a, l) <=> c \in Slice(S, a, m) \/ c \in Shl(Slice(S, e, n), m)
  <2>1. CASE c < m
    <3>1. c < l
      BY <1>1, <2>1
    <3>. QED
      BY <1>3, <1>4, <2>1, <3>1
  <2>2. CASE c >= m
    <3>1. PICK d \in Nat : d = c - m
      BY <2>2
    <3>2. c < l <=> d < n
      BY <1>1, <2>2, <3>1
    <3>3. e + d = a + c
      BY <1>2, <2>2, <3>1
    <3>4. c \in Shl(Slice(S, e, n), m) <=> d < n /\ e + d \in S
      BY <1>3, <1>4, <2>2, <3>1
    <3>5. c \notin Slice(S, a, m)
      BY <1>3, <2>2
    <3>. QED
      BY <1>3, <3>2, <3>3, <3>4, <3>5
  <2>. QED
    BY <2>1, <2>2
<1>. QED
  BY <1>1, <1>2, <1>3, <1>4, <1>5

LEMMA UnpackerType ==
  ASSUME NEW u \in Unpackers
  PROVE  /\ u.r \in Reader /\ u.r.currOffset \in Nat /\ u.r.endReadOffset \in Nat
         /\ u.r.overflowOnReadEndPos = TRUE
         /\ u.scratch \in SUBSET Nat /\ u.scratchBits \in 0 .. W - 1 /\ u.scratchBits \in Nat
         /\ u.scratch \in SUBSET (0 .. u.scratchBits - 1)
         /\ u.res \in SUBSET Nat
         /\ W * u.r.currOffset \in Nat
         /\ Pos(u) \in Int /\ W * u.r.currOffset = Pos(u) + u.scratchBits
<1>1. /\ u.r \in Reader /\ u.r.currOffset \in Nat /\ u.r.endReadOffset \in Nat
      /\ u.r.overflowOnReadEndPos = TRUE
      /\ u.scratch \in SUBSET Nat /\ u.scratchBits \in 0 .. W - 1 /\ u.scratchBits \in Nat
      /\ u.scratch \in SUBSET (0 .. u.scratchBits - 1)
      /\ u.res \in SUBSET Nat
  BY Width DEF Unpackers, Reader
<1>2. W * u.r.currOffset \in Nat
  BY <1>1, Times
<1>. QED
  BY <1>1, <1>2 DEF Pos

\* The fields of an unpacker decide what it is.
LEMMA UnpackerIs ==
  ASSUME NEW r \in Reader, r.overflowOnReadEndPos = TRUE, NEW n \in 0 .. W - 1,
         NEW s \in SUBSET (0 .. n - 1), NEW x \in SUBSET Nat
  PROVE  [ r |-> r, res |-> x, scratch |-> s, scratchBits |-> n ] \in Unpackers
<1>1. s \in SUBSET Nat
  BY Width
<1>. QED
  BY <1>1 DEF Unpackers

LEMMA RaiseBreaks ==
  ASSUME NEW r \in Reader, r.overflowOnReadEndPos = TRUE, NEW e \in RealErrors
  PROVE  /\ RaiseError(r, e) \in Reader /\ RaiseError(r, e).overflowOnReadEndPos = TRUE
         /\ r.currOffset <= r.endReadOffset =>
              /\ RaiseError(r, e).endReadOffset = 0 /\ RaiseError(r, e).bufferSize = 0
              /\ RaiseError(r, e).currOffset = e
         /\ ~(r.currOffset <= r.endReadOffset) => RaiseError(r, e) = r
<1>1. e \in Nat
  BY DEF RealErrors, ReaderError, NoError, InvalidPointer
<1>. QED
  BY <1>1 DEF RaiseError, Reader

LEMMA Errors ==
  /\ DataOverflow \in RealErrors /\ InvalidData \in RealErrors
  /\ \A e \in RealErrors : e \in Nat /\ e > 0
BY DEF DataOverflow, InvalidData, RealErrors, ReaderError, NoError, InvalidPointer

\* What a read leaves of the plain adapter, and what it returns.
LEMMA PlainRead ==
  ASSUME NEW r \in Reader, r.overflowOnReadEndPos = TRUE, NEW d \in Seq(Bytes), NEW n \in Nat
  PROVE  /\ ReadBytes(r, n) \in Reader /\ ReadBytes(r, n).overflowOnReadEndPos = TRUE
         /\ Fits(r, n) => /\ ReadBytes(r, n).currOffset = r.currOffset + n
                          /\ ReadBytes(r, n).endReadOffset = r.endReadOffset
                          /\ ReadBytes(r, n).bufferSize = r.bufferSize
                          /\ BytesRead(r, d, n) = SubSeq(d, r.currOffset + 1, r.currOffset + n)
         /\ ~Fits(r, n) => /\ ReadBytes(r, n) = RaiseError(r, DataOverflow)
                           /\ BytesRead(r, d, n) \in Seq(Bytes) /\ Len(BytesRead(r, d, n)) = n
<1>1. CASE Fits(r, n)
  <2>1. ReadBytes(r, n) = [ r EXCEPT !.currOffset = @ + n ]
    BY <1>1 DEF ReadBytes
  <2>2. PICK q : q = [ r EXCEPT !.currOffset = @ + n ]
    OBVIOUS
  <2>3. /\ q \in Reader /\ q.overflowOnReadEndPos = TRUE
        /\ q.currOffset = r.currOffset + n /\ q.endReadOffset = r.endReadOffset
        /\ q.bufferSize = r.bufferSize
    BY <2>2 DEF Reader
  <2>. QED
    BY <1>1, <2>1, <2>2, <2>3 DEF BytesRead
<1>2. CASE ~Fits(r, n)
  <2>1. ReadBytes(r, n) = RaiseError(r, DataOverflow)
    BY <1>2 DEF ReadBytes
  <2>2. PICK z : z = Zeros(n)
    OBVIOUS
  <2>3. z \in [ 1 .. n -> Bytes ]
    BY <2>2, BytesAreBits DEF Zeros
  <2>4. z \in Seq(Bytes) /\ Len(z) = n
    BY <2>3
  <2>5. BytesRead(r, d, n) = z
    BY <1>2, <2>2 DEF BytesRead
  <2>. QED
    BY <1>2, <2>1, <2>4, <2>5, RaiseBreaks, Errors
<1>. QED
  BY <1>1, <1>2

-----------------------------------------------------------------------------
\* Where an unpacker is after n bits of d more, if they are there.
After(u, v, d, n) ==
  IF Pos(u) + n <= W * Len(d) THEN Healthy(v, d) /\ Pos(v) = Pos(u) + n ELSE Broken(v)

Reading(u, d) == Healthy(u, d) \/ Broken(u)

\* What r and t are after n bytes are read: those bytes, if they are there.
Fetched(u, d, n, r, t) ==
  /\ r \in Reader /\ r.overflowOnReadEndPos = TRUE /\ t \in Seq(Bytes) /\ Len(t) = n
  /\ Broken(u) => r = u.r
  /\ Healthy(u, d) /\ u.r.currOffset + n <= Len(d) =>
       /\ r.currOffset = u.r.currOffset + n /\ r.endReadOffset = Len(d) /\ r.bufferSize = Len(d)
       /\ t = SubSeq(d, u.r.currOffset + 1, u.r.currOffset + n)
  /\ Healthy(u, d) /\ ~(u.r.currOffset + n <= Len(d)) =>
       r.currOffset \in RealErrors /\ r.endReadOffset = 0 /\ r.bufferSize = 0

LEMMA FetchReads ==
  ASSUME NEW d \in Seq(Bytes), NEW u, Reading(u, d), NEW n \in Nat
  PROVE  Fetched(u, d, n, ReadBytes(u.r, n), BytesRead(u.r, d, n))
<1>1. /\ u \in Unpackers /\ u.r \in Reader /\ u.r.overflowOnReadEndPos = TRUE
      /\ u.r.currOffset \in Nat /\ Len(d) \in Nat
  <2>1. u \in Unpackers
    BY DEF Reading, Healthy, Broken
  <2>2. Len(d) \in Nat
    OBVIOUS
  <2>. QED
    BY <2>1, <2>2, UnpackerType
<1>2. PICK r \in Reader : r = u.r /\ r.overflowOnReadEndPos = TRUE
  BY <1>1
<1>3. PICK o \in Nat : o = r.currOffset
  BY <1>1, <1>2
<1>. DEFINE q == ReadBytes(r, n)
            t == BytesRead(r, d, n)
<1>6. /\ q \in Reader /\ q.overflowOnReadEndPos = TRUE
      /\ Fits(r, n) => /\ q.currOffset = o + n /\ q.endReadOffset = r.endReadOffset
                       /\ q.bufferSize = r.bufferSize /\ t = SubSeq(d, o + 1, o + n)
      /\ ~Fits(r, n) => q = RaiseError(r, DataOverflow) /\ t \in Seq(Bytes) /\ Len(t) = n
  <2>1. /\ q \in Reader /\ q.overflowOnReadEndPos = TRUE
        /\ Fits(r, n) => /\ q.currOffset = r.currOffset + n /\ q.endReadOffset = r.endReadOffset
                         /\ q.bufferSize = r.bufferSize
                         /\ t = SubSeq(d, r.currOffset + 1, r.currOffset + n)
        /\ ~Fits(r, n) => q = RaiseError(r, DataOverflow) /\ t \in Seq(Bytes) /\ Len(t) = n
    <3>1. q \in Reader /\ q.overflowOnReadEndPos = TRUE
      BY <1>2, PlainRead
    <3>2. Fits(r, n) => /\ q.currOffset = r.currOffset + n /\ q.endReadOffset = r.endReadOffset
                        /\ q.bufferSize = r.bufferSize
                        /\ t = SubSeq(d, r.currOffset + 1, r.currOffset + n)
      <4>1. Fits(r, n) => q.currOffset = r.currOffset + n
        BY <1>2, PlainRead, ZenonT(30)
      <4>2. Fits(r, n) => q.endReadOffset = r.endReadOffset /\ q.bufferSize = r.bufferSize
        <5>1. Fits(r, n) => q = [ r EXCEPT !.currOffset = @ + n ]
          BY DEF ReadBytes
        <5>. QED
          BY <5>1 DEF Reader
      <4>3. Fits(r, n) => t = SubSeq(d, r.currOffset + 1, r.currOffset + n)
        BY DEF BytesRead
      <4>. QED
        BY <4>1, <4>2, <4>3
    <3>3. ~Fits(r, n) => q = RaiseError(r, DataOverflow) /\ t \in Seq(Bytes) /\ Len(t) = n
      BY <1>2, PlainRead
    <3>. QED
      BY <3>1, <3>2, <3>3
  <2>. HIDE DEF q, t
  <2>. QED
    BY <1>3, <2>1
<1>. HIDE DEF q, t
<1>7. PICK e \in RealErrors : e = DataOverflow
  BY Errors
<1>8. /\ o <= r.endReadOffset =>
           RaiseError(r, e).endReadOffset = 0 /\ RaiseError(r, e).bufferSize = 0
           /\ RaiseError(r, e).currOffset = e
      /\ ~(o <= r.endReadOffset) => RaiseError(r, e) = r
  BY <1>2, <1>3, RaiseBreaks
<1>9. ASSUME Broken(u) PROVE q = r /\ ~Fits(r, n)
  <2>1. r.endReadOffset = 0 /\ o > 0
    BY <1>2, <1>3, <1>9, Errors DEF Broken
  <2>2. ~Fits(r, n)
    BY <1>3, <2>1 DEF Fits
  <2>. QED
    BY <1>6, <1>7, <1>8, <2>1, <2>2
<1>10. ASSUME Healthy(u, d)
       PROVE  r.endReadOffset = Len(d) /\ r.bufferSize = Len(d) /\ o <= Len(d)
              /\ (Fits(r, n) <=> o + n <= Len(d))
  BY <1>2, <1>3, <1>10 DEF Healthy, Fits
<1>11. t \in Seq(Bytes) /\ Len(t) = n
  <2>1. CASE Fits(r, n)
    <3>1. o + n <= Len(d)
      BY <1>9, <1>10, <2>1 DEF Reading
    <3>2. t = SubSeq(d, o + 1, o + n)
      BY <1>6, <2>1
    <3>. QED
      BY <3>1, <3>2, OnesOfPart
  <2>2. CASE ~Fits(r, n)
    BY <1>6, <2>2
  <2>. QED
    BY <2>1, <2>2
<1>12. ASSUME Healthy(u, d), o + n <= Len(d)
       PROVE  /\ q.currOffset = o + n /\ q.endReadOffset = Len(d) /\ q.bufferSize = Len(d)
              /\ t = SubSeq(d, o + 1, o + n)
  BY <1>6, <1>10, <1>12
<1>13. ASSUME Healthy(u, d), ~(o + n <= Len(d))
       PROVE  q.currOffset \in RealErrors /\ q.endReadOffset = 0 /\ q.bufferSize = 0
  <2>1. q = RaiseError(r, e) /\ o <= r.endReadOffset
    BY <1>6, <1>7, <1>10, <1>13
  <2>. QED
    BY <1>8, <2>1
<1>. QED
  BY <1>2, <1>3, <1>6, <1>9, <1>11, <1>12, <1>13 DEF Fetched, q, t

LEMMA DrawReads ==
  ASSUME NEW d \in Seq(Bytes), NEW u, Reading(u, d), NEW n \in 1 .. W, NEW at \in Nat
  PROVE  /\ Broken(u) => Broken(Draw(u, d, n, at))
         /\ Healthy(u, d) =>
              /\ After(u, Draw(u, d, n, at), d, n)
              /\ Pos(u) + n <= W * Len(d) =>
                   Draw(u, d, n, at).res = u.res \union Shl(Slice(Ones(d), Pos(u), n), at)
<1>1. /\ u \in Unpackers /\ u.r \in Reader /\ u.r.overflowOnReadEndPos = TRUE
      /\ u.r.currOffset \in Nat /\ u.r.endReadOffset \in Nat
      /\ u.scratch \in SUBSET Nat /\ u.scratchBits \in 0 .. W - 1 /\ u.scratchBits \in Nat
      /\ u.scratch \in SUBSET (0 .. u.scratchBits - 1) /\ u.res \in SUBSET Nat
      /\ n \in Nat /\ W \in Nat \ {0} /\ Len(d) \in Nat
  <2>1. u \in Unpackers
    BY DEF Reading, Healthy, Broken
  <2>2. Len(d) \in Nat /\ n \in Nat /\ W \in Nat \ {0}
    BY Width
  <2>. QED
    BY <2>1, <2>2, UnpackerType
<1>2. PICK sb \in 0 .. W - 1 : sb = u.scratchBits
  BY <1>1
<1>. DEFINE r1 == ReadBytes(u.r, 1)
            byte1 == BytesRead(u.r, d, 1)
<1>f. /\ r1 \in Reader /\ r1.overflowOnReadEndPos = TRUE
      /\ byte1 \in Seq(Bytes) /\ Len(byte1) = 1
      /\ Broken(u) => r1 = u.r
      /\ Healthy(u, d) /\ u.r.currOffset + 1 <= Len(d) =>
           /\ r1.currOffset = u.r.currOffset + 1
           /\ r1.endReadOffset = Len(d) /\ r1.bufferSize = Len(d)
           /\ byte1 = SubSeq(d, u.r.currOffset + 1, u.r.currOffset + 1)
      /\ Healthy(u, d) /\ ~(u.r.currOffset + 1 <= Len(d)) =>
           r1.currOffset \in RealErrors /\ r1.endReadOffset = 0 /\ r1.bufferSize = 0
  <2>1. Fetched(u, d, 1, r1, byte1)
    BY FetchReads
  <2>. QED
    BY <2>1 DEF Fetched
<1>3. PICK byte \in Seq(Bytes) : byte = byte1 /\ Len(byte) = 1
  BY <1>f
<1>4. PICK r \in Reader : r = r1 /\ r.overflowOnReadEndPos = TRUE
  BY <1>f
<1>5. PICK x \in Patterns : x = Bits(byte[1])
  <2>1. byte[1] \in Bytes
    BY <1>3
  <2>. QED
    BY <2>1, BytesAreBits
<1>6. PICK filled : filled = IF sb < n THEN sb + W ELSE sb
  OBVIOUS
<1>7. PICK scratch : scratch = IF sb < n THEN u.scratch \union Shl(x, sb) ELSE u.scratch
  OBVIOUS
<1>8. PICK next : next = IF sb < n THEN r ELSE u.r
  OBVIOUS
<1>9. PICK v : v = Draw(u, d, n, at)
  OBVIOUS
<1>10. v = [ r |-> next, res |-> u.res \union Shl(Low(scratch, n), at),
             scratch |-> Shr(scratch, n), scratchBits |-> filled - n ]
  BY <1>2, <1>3, <1>4, <1>5, <1>6, <1>7, <1>8, <1>9 DEF Draw
<1>11. filled \in Nat /\ filled - n \in 0 .. W - 1 /\ sb \in Nat
  BY <1>1, <1>2, <1>6, SMTT(30)
<1>12. x \in SUBSET Nat /\ x \in SUBSET (0 .. W - 1)
  BY <1>1 DEF Patterns
<1>13. /\ scratch \in SUBSET Nat
       /\ \A c \in Nat : c \in scratch <=> c \in u.scratch \/ (sb < n /\ c >= sb /\ c - sb \in x)
  <2>1. Shl(x, sb) \subseteq Nat /\ \A c \in Nat : c \in Shl(x, sb) <=> c >= sb /\ c - sb \in x
    BY <1>11, <1>12, Shifted
  <2>. QED
    BY <1>1, <1>7, <2>1
<1>14. \A c \in scratch : c < filled
  <2>1. ASSUME NEW c \in scratch PROVE c < filled
    <3>1. c \in Nat /\ (c \in u.scratch \/ (sb < n /\ c >= sb /\ c - sb \in x))
      BY <1>13
    <3>. QED
      BY <1>1, <1>2, <1>6, <1>12, <3>1
  <2>. QED
    BY <2>1
<1>15. /\ Shr(scratch, n) \in SUBSET (0 .. (filled - n) - 1)
       /\ \A c \in Nat : c \in Shr(scratch, n) <=> c + n \in scratch
  <2>1. Shr(scratch, n) \subseteq Nat /\ \A c \in Nat : c \in Shr(scratch, n) <=> c + n \in scratch
    BY <1>1, <1>13, Shifted
  <2>2. ASSUME NEW c \in Shr(scratch, n) PROVE c \in 0 .. (filled - n) - 1
    <3>1. c \in Nat /\ c + n < filled
      BY <1>14, <2>1
    <3>. QED
      BY <1>1, <1>11, <3>1
  <2>. QED
    BY <2>1, <2>2
<1>16. PICK low \in SUBSET Nat : low = Low(scratch, n) /\ \A c \in Nat : c \in low <=> c < n /\ c \in scratch
  <2>1. Low(scratch, n) \subseteq Nat /\ \A c \in Nat : c \in Low(scratch, n) <=> c < n /\ c \in scratch
    BY <1>1, <1>13, Shifted
  <2>. QED
    BY <2>1
<1>17. Shl(low, at) \subseteq Nat
  <2>1. 0 \in Nat
    OBVIOUS
  <2>. QED
    BY <2>1, Shifted
<1>18. PICK rest : rest = Shr(scratch, n)
  OBVIOUS
<1>19. PICK left \in 0 .. W - 1 : left = filled - n
  BY <1>11
<1>20. PICK res \in SUBSET Nat : res = u.res \union Shl(low, at)
  BY <1>1, <1>17
<1>21. next \in Reader /\ next.overflowOnReadEndPos = TRUE
  BY <1>1, <1>4, <1>8
<1>22. v = [ r |-> next, res |-> res, scratch |-> rest, scratchBits |-> left ]
  BY <1>10, <1>16, <1>18, <1>19, <1>20
<1>23. v \in Unpackers
  <2>1. rest \in SUBSET (0 .. left - 1)
    BY <1>15, <1>18, <1>19
  <2>. QED
    BY <1>21, <1>22, <2>1, UnpackerIs
<1>24. v.r = next /\ v.scratch = rest /\ v.scratchBits = left /\ v.res = res
  BY <1>22
<1>25. ASSUME Broken(u) PROVE Broken(v)
  <2>1. next = u.r
    BY <1>4, <1>8, <1>25, <1>f
  <2>. QED
    BY <1>23, <1>24, <1>25, <2>1 DEF Broken
<1>26. ASSUME Healthy(u, d)
       PROVE  /\ After(u, v, d, n)
              /\ Pos(u) + n <= W * Len(d) =>
                   v.res = u.res \union Shl(Slice(Ones(d), Pos(u), n), at)
  <2>1. PICK c \in Nat : c = u.r.currOffset
    BY <1>1
  <2>2. PICK a \in Nat : a = Pos(u)
    <3>1. Pos(u) \in Int /\ Pos(u) >= 0
      BY <1>1, <1>26, UnpackerType DEF Healthy
    <3>. QED
      BY <3>1
  <2>3. /\ u.r.endReadOffset = Len(d) /\ u.r.bufferSize = Len(d) /\ c <= Len(d)
        /\ u.scratch = Slice(Ones(d), a, sb)
    BY <1>2, <1>26, <2>1, <2>2 DEF Healthy
  <2>4. W * c \in Nat /\ W * c = a + sb /\ W * (c + 1) = W * c + W
    BY <1>1, <1>2, <2>1, <2>2, Times, UnpackerType
  <2>5. W * Len(d) \in Nat /\ W * c <= W * Len(d)
    BY <1>1, <2>1, <2>3, Times, TimesOrder
  <2>6. a + n <= W * Len(d) <=> (sb < n => c + 1 <= Len(d))
    <3>1. CASE sb < n
      <4>1. c < Len(d) <=> W * c + W <= W * Len(d)
        BY <1>1, TimesOrder
      <4>2. c = Len(d) => W * c = W * Len(d)
        OBVIOUS
      <4>. QED
        BY <1>1, <2>3, <2>4, <2>5, <3>1, <4>1, <4>2
    <3>2. CASE ~(sb < n)
      <4>1. PICK l \in Nat : l = W * Len(d)
        BY <2>5
      <4>2. a + n <= l
        BY <1>1, <1>11, <2>4, <2>5, <3>2, <4>1
      <4>. QED
        BY <3>2, <4>1, <4>2
    <3>. QED
      BY <3>1, <3>2
  <2>7. CASE ~(a + n <= W * Len(d))
    <3>1. sb < n /\ ~(c + 1 <= Len(d))
      BY <2>6, <2>7
    <3>2. next.currOffset \in RealErrors /\ next.endReadOffset = 0 /\ next.bufferSize = 0
      BY <1>4, <1>8, <1>26, <1>f, <2>1, <3>1
    <3>3. Broken(v)
      BY <1>23, <1>24, <3>2 DEF Broken
    <3>. QED
      BY <2>2, <2>7, <3>3 DEF After
  <2>8. CASE a + n <= W * Len(d)
    <3>1. /\ next.endReadOffset = Len(d) /\ next.bufferSize = Len(d)
          /\ next.currOffset = IF sb < n THEN c + 1 ELSE c
      <4>1. CASE sb < n
        BY <1>4, <1>8, <1>26, <1>f, <2>1, <2>6, <2>8, <4>1
      <4>2. CASE ~(sb < n)
        BY <1>8, <2>1, <2>3, <4>2
      <4>. QED
        BY <4>1, <4>2
    <3>2. next.currOffset <= Len(d)
      BY <2>3, <2>6, <2>8, <3>1
    <3>3. W * next.currOffset = a + filled
      <4>1. CASE sb < n
        <5>1. next.currOffset = c + 1 /\ filled = sb + W
          BY <1>6, <3>1, <4>1
        <5>. QED
          BY <1>1, <1>11, <2>4, <5>1
      <4>2. CASE ~(sb < n)
        <5>1. next.currOffset = c /\ filled = sb
          BY <1>6, <3>1, <4>2
        <5>. QED
          BY <2>4, <5>1
      <4>. QED
        BY <4>1, <4>2
    <3>4. Pos(v) = a + n
      BY <1>1, <1>11, <1>19, <1>24, <3>3 DEF Pos
    <3>5. Ones(d) \in SUBSET Nat
      BY OnesBelow
    <3>6. ASSUME NEW e \in Nat PROVE e \in scratch <=> e < filled /\ a + e \in Ones(d)
      <4>1. CASE e < sb
        <5>1. e \in u.scratch <=> a + e \in Ones(d)
          BY <1>11, <2>3, <3>5, <4>1, SliceIs
        <5>2. e < filled
          BY <1>1, <1>6, <1>11, <4>1
        <5>. QED
          BY <1>11, <1>13, <4>1, <5>1, <5>2
      <4>2. CASE e >= sb
        <5>1. e \notin u.scratch
          BY <1>1, <1>2, <4>2
        <5>2. CASE sb < n /\ e - sb < W
          <6>1. PICK b \in 0 .. W - 1 : b = e - sb
            <7>1. e - sb \in 0 .. W - 1
              BY <1>1, <1>11, <4>2, <5>2
            <7>. QED
              BY <7>1
          <6>2. c < Len(d) /\ a + e = W * c + b /\ e < filled
            BY <1>1, <1>6, <1>11, <2>4, <2>6, <2>8, <5>2, <6>1
          <6>3. byte[1] = d[c + 1]
            <7>1. byte = SubSeq(d, c + 1, c + 1)
              <8>1. c + 1 <= Len(d)
                BY <1>1, <6>2
              <8>. QED
                BY <1>3, <1>26, <1>f, <2>1, <8>1
            <7>. QED
              BY <7>1
          <6>4. a + e \in Ones(d) <=> b \in x
            BY <1>5, <6>2, <6>3, OnesAt
          <6>. QED
            BY <1>13, <4>2, <5>1, <5>2, <6>1, <6>2, <6>4
        <5>3. CASE ~(sb < n /\ e - sb < W)
          <6>1. ~(e < filled)
            BY <1>1, <1>6, <1>11, <4>2, <5>3
          <6>. QED
            BY <1>11, <1>14, <6>1
        <5>. QED
          BY <5>2, <5>3
      <4>. QED
        BY <1>11, <4>1, <4>2
    <3>7. low = Slice(Ones(d), a, n)
      <4>1. n <= filled
        BY <1>1, <1>11
      <4>2. ASSUME NEW e \in Nat PROVE e \in low <=> e \in Slice(Ones(d), a, n)
        <5>1. e < n => e < filled
          BY <1>1, <1>11, <4>1
        <5>. QED
          BY <1>1, <1>16, <3>5, <3>6, <5>1, SliceIs
      <4>3. Slice(Ones(d), a, n) \in SUBSET Nat
        BY <1>1, <3>5, SliceIs
      <4>. QED
        BY <4>2, <4>3
    <3>8. rest = Slice(Ones(d), a + n, left)
      <4>1. PICK f \in Nat : f = a + n
        BY <1>1
      <4>2. left \in Nat
        OBVIOUS
      <4>3. ASSUME NEW e \in Nat PROVE e \in rest <=> e \in Slice(Ones(d), f, left)
        <5>1. e + n \in Nat /\ (e + n < filled <=> e < left) /\ a + (e + n) = f + e
          BY <1>1, <1>11, <1>19, <4>1
        <5>2. e \in rest <=> e < left /\ f + e \in Ones(d)
          BY <1>15, <1>18, <3>6, <5>1
        <5>. QED
          BY <3>5, <4>2, <5>2, SliceIs
      <4>4. rest \in SUBSET Nat
        BY <1>15, <1>18
      <4>5. Slice(Ones(d), f, left) \in SUBSET Nat
        BY <3>5, <4>2, SliceIs
      <4>. QED
        BY <4>1, <4>3, <4>4, <4>5
    <3>9. Healthy(v, d)
      BY <1>1, <1>23, <1>24, <3>1, <3>2, <3>4, <3>8 DEF Healthy
    <3>. QED
      BY <1>16, <1>20, <1>24, <2>2, <2>8, <3>4, <3>7, <3>9 DEF After
  <2>. QED
    BY <2>7, <2>8
<1>. QED
  BY <1>9, <1>25, <1>26

-----------------------------------------------------------------------------
\* v is u after n bits of d were read, with their value, or with an error.
Reads(u, v, d, n) ==
  /\ Broken(u) => Broken(v)
  /\ Healthy(u, d) =>
       After(u, v, d, n) /\ (Pos(u) + n <= W * Len(d) => v.res = Slice(Ones(d), Pos(u), n))

LEMMA ReadingType ==
  ASSUME NEW d \in Seq(Bytes), NEW u, Reading(u, d)
  PROVE  /\ u \in Unpackers /\ Len(d) \in Nat /\ W * Len(d) \in Nat
         /\ Healthy(u, d) => Pos(u) \in Nat /\ Pos(u) <= W * Len(d) /\ ~Broken(u)
<1>1. u \in Unpackers
  BY DEF Reading, Healthy, Broken
<1>2. Len(d) \in Nat
  OBVIOUS
<1>3. W * Len(d) \in Nat
  BY <1>2, Times
<1>4. ASSUME Healthy(u, d) PROVE Pos(u) \in Nat /\ Pos(u) <= W * Len(d) /\ ~Broken(u)
  <2>1. PICK c \in Nat : c = u.r.currOffset
    BY <1>1, UnpackerType
  <2>2. PICK sb \in Nat : sb = u.scratchBits
    BY <1>1, UnpackerType
  <2>3. /\ c <= Len(d) /\ Pos(u) \in Int /\ Pos(u) >= 0 /\ W * c = Pos(u) + sb
        /\ u.r.endReadOffset = Len(d)
    BY <1>1, <1>4, <2>1, <2>2, UnpackerType DEF Healthy
  <2>4. W * c <= W * Len(d) /\ W * c \in Nat
    BY <1>2, <2>1, <2>3, Times, TimesOrder
  <2>5. ~Broken(u)
    BY <1>2, <2>1, <2>3, Errors DEF Broken
  <2>. QED
    BY <1>3, <2>2, <2>3, <2>4, <2>5
<1>. QED
  BY <1>1, <1>2, <1>3, <1>4

LEMMA ReadsReading ==
  ASSUME NEW d, NEW u, Reading(u, d), NEW n, NEW v, Reads(u, v, d, n)
  PROVE  Reading(v, d)
BY DEF Reading, Reads, After

\* Without the value that was read last.
LEMMA Emptied ==
  ASSUME NEW d \in Seq(Bytes), NEW u, Reading(u, d), NEW x \in SUBSET Nat,
         NEW v, v = [ u EXCEPT !.res = x ]
  PROVE  /\ Reading(v, d) /\ v.res = x /\ Pos(v) = Pos(u) /\ v.scratchBits = u.scratchBits
         /\ v.r = u.r
         /\ (Broken(v) <=> Broken(u)) /\ (Healthy(v, d) <=> Healthy(u, d))
<1>1. u \in Unpackers
  BY ReadingType
<1>2. /\ v \in [ r : Reader, scratch : SUBSET Nat, scratchBits : 0 .. W - 1, res : SUBSET Nat ]
      /\ v.r = u.r /\ v.scratch = u.scratch /\ v.scratchBits = u.scratchBits /\ v.res = x
  BY <1>1 DEF Unpackers
<1>3. v \in Unpackers
  BY <1>1, <1>2 DEF Unpackers
<1>4. Pos(v) = Pos(u)
  BY <1>2 DEF Pos
<1>5. (Broken(v) <=> Broken(u)) /\ (Healthy(v, d) <=> Healthy(u, d))
  BY <1>1, <1>2, <1>3, <1>4 DEF Healthy, Broken
<1>. QED
  BY <1>2, <1>4, <1>5 DEF Reading

LEMMA ReadsMore ==
  ASSUME NEW d \in Seq(Bytes), NEW u, Reading(u, d), NEW m \in Nat, NEW q, Reads(u, q, d, m),
         NEW l \in 1 .. W
  PROVE  Reads(u, Draw(q, d, l, m), d, m + l)
<1>1. Reading(q, d) /\ l \in Nat
  BY ReadsReading, Width
<1>2. PICK v : v = Draw(q, d, l, m)
  OBVIOUS
<1>3. /\ Broken(q) => Broken(v)
      /\ Healthy(q, d) =>
           /\ After(q, v, d, l)
           /\ Pos(q) + l <= W * Len(d) => v.res = q.res \union Shl(Slice(Ones(d), Pos(q), l), m)
  BY <1>1, <1>2, DrawReads
<1>4. ASSUME Broken(u) PROVE Broken(v)
  BY <1>3, <1>4 DEF Reads
<1>5. ASSUME Healthy(u, d)
      PROVE  /\ After(u, v, d, m + l)
             /\ Pos(u) + (m + l) <= W * Len(d) => v.res = Slice(Ones(d), Pos(u), m + l)
  <2>1. PICK a \in Nat : a = Pos(u)
    BY <1>5, ReadingType
  <2>2. PICK e \in Nat : e = W * Len(d)
    BY <1>5, ReadingType
  <2>3. IF a + m <= e THEN Healthy(q, d) /\ Pos(q) = a + m /\ q.res = Slice(Ones(d), a, m)
        ELSE Broken(q)
    BY <1>5, <2>1, <2>2 DEF Reads, After
  <2>4. CASE a + (m + l) <= e
    <3>1. Healthy(q, d) /\ Pos(q) = a + m /\ q.res = Slice(Ones(d), a, m) /\ a + m + l <= e
      BY <1>1, <2>3, <2>4
    <3>2. Healthy(v, d) /\ Pos(v) = a + m + l
          /\ v.res = Slice(Ones(d), a, m) \union Shl(Slice(Ones(d), a + m, l), m)
      BY <1>3, <2>2, <3>1 DEF After
    <3>3. v.res = Slice(Ones(d), a, m + l)
      BY <1>1, <3>2, OnesBelow, SliceSum
    <3>4. a + m + l = a + (m + l)
      BY <1>1
    <3>. QED
      BY <2>1, <2>2, <2>4, <3>2, <3>3, <3>4 DEF After
  <2>5. CASE ~(a + (m + l) <= e)
    <3>1. Broken(v)
      <4>1. CASE a + m <= e
        <5>1. Healthy(q, d) /\ Pos(q) = a + m /\ ~(a + m + l <= e)
          BY <1>1, <2>3, <2>5, <4>1
        <5>. QED
          BY <1>3, <2>2, <5>1 DEF After
      <4>2. CASE ~(a + m <= e)
        BY <1>3, <2>3, <4>2
      <4>. QED
        BY <4>1, <4>2
    <3>. QED
      BY <2>1, <2>2, <2>5, <3>1 DEF After
  <2>. QED
    BY <2>4, <2>5
<1>. QED
  BY <1>2, <1>4, <1>5 DEF Reads

LEMMA ReadBitsReads ==
  ASSUME NEW d \in Seq(Bytes), NEW u, Reading(u, d), NEW n \in Nat
  PROVE  Reads(u, ReadBits(u, d, n), d, n)
<1>. DEFINE Next_(q, k) == Draw(q, d, Smaller(n - W * (k - 1), W), W * (k - 1))
            S == { q \in Unpackers : Reading(q, d) }
            F == [ z \in (1 .. Steps(n)) \X S |-> Next_(z[2], z[1]) ]
<1>1. Steps(n) \in Nat /\ n <= W * Steps(n)
  BY StepsType
<1>2. PICK s : s = [ u EXCEPT !.res = {} ]
  OBVIOUS
<1>3. /\ Reading(s, d) /\ s.res = {} /\ Pos(s) = Pos(u)
      /\ (Broken(s) <=> Broken(u)) /\ (Healthy(s, d) <=> Healthy(u, d))
  <2>1. {} \in SUBSET Nat
    OBVIOUS
  <2>. QED
    BY <1>2, <2>1, Emptied
<1>4. s \in S
  BY <1>3, ReadingType
<1>5. ASSUME NEW q \in S, NEW k \in 1 .. Steps(n) PROVE Next_(q, k) \in S
  <2>1. k - 1 \in 0 .. Steps(n) - 1
    BY <1>1
  <2>2. PICK m \in Nat : m = W * (k - 1)
    BY <2>1, Rounds
  <2>3. PICK l \in 1 .. W : l = Smaller(n - m, W)
    BY <2>1, <2>2, Rounds
  <2>4. PICK v : v = Draw(q, d, l, m)
    OBVIOUS
  <2>5. /\ Broken(q) => Broken(v)
        /\ Healthy(q, d) => After(q, v, d, l)
    BY <2>4, DrawReads
  <2>6. Reading(v, d)
    BY <2>5 DEF Reading, After
  <2>7. v \in S
    BY <2>6, ReadingType
  <2>. QED
    BY <2>2, <2>3, <2>4, <2>7
<1>. HIDE DEF Next_, S
<1>6. /\ F \in [ (1 .. Steps(n)) \X S -> S ]
      /\ \A k \in 1 .. Steps(n), q \in S : F[<<k, q>>] = Next_(q, k)
  BY <1>5
<1>. HIDE DEF F
<1>7. Loops(Steps(n), S, s, F)
  BY <1>1, <1>4, <1>6, Recursion
<1>8. PICK g \in [ 0 .. Steps(n) -> S ] :
        g[0] = s /\ \A k \in 1 .. Steps(n) : g[k] = F[<<k, g[k - 1]>>]
  BY <1>7 DEF Loops
<1>9. g = [ k \in 0 .. Steps(n) |-> IF k = 0 THEN s ELSE Next_(g[k - 1], k) ]
  <2>1. ASSUME NEW k \in 0 .. Steps(n)
        PROVE  g[k] = IF k = 0 THEN s ELSE Next_(g[k - 1], k)
    <3>1. k # 0 => k \in 1 .. Steps(n) /\ k - 1 \in 0 .. Steps(n)
      BY <1>1
    <3>2. k # 0 => g[k - 1] \in S
      BY <3>1
    <3>. QED
      BY <1>6, <1>8, <3>1, <3>2
  <2>. QED
    BY <2>1
<1>10. \E f : f = [ k \in 0 .. Steps(n) |-> IF k = 0 THEN s ELSE Next_(f[k - 1], k) ]
  BY <1>9
<1>. DEFINE round == CHOOSE f : f = [ k \in 0 .. Steps(n) |-> IF k = 0 THEN s ELSE Next_(f[k - 1], k) ]
<1>11. round = [ k \in 0 .. Steps(n) |-> IF k = 0 THEN s ELSE Next_(round[k - 1], k) ]
  BY <1>10
<1>12. ReadBits(u, d, n) = round[Steps(n)]
  BY <1>2 DEF ReadBits, Next_
<1>. HIDE DEF round
<1>. DEFINE K == { k \in 0 .. Steps(n) : Reads(u, round[k], d, Smaller(n, W * k)) }
<1>13. 0 \in K
  <2>1. round[0] = s /\ Smaller(n, W * 0) = 0
    BY <1>1, <1>11, Times DEF Smaller
  <2>2. ASSUME Healthy(u, d)
        PROVE  After(u, s, d, 0) /\ s.res = Slice(Ones(d), Pos(u), 0)
    <3>1. Pos(u) \in Nat /\ Pos(u) <= W * Len(d) /\ Pos(u) + 0 = Pos(u)
      BY <2>2, ReadingType
    <3>2. Slice(Ones(d), Pos(u), 0) = {}
      BY DEF Slice
    <3>. QED
      BY <1>3, <2>2, <3>1, <3>2 DEF After
  <2>3. Reads(u, s, d, 0)
    BY <1>3, <2>2 DEF Reads
  <2>. QED
    BY <1>1, <2>1, <2>3
<1>14. ASSUME NEW k \in 0 .. Steps(n) - 1, k \in K
       PROVE  k + 1 \in K
  <2>1. k + 1 \in 1 .. Steps(n) /\ (k + 1) - 1 = k /\ k + 1 \in 0 .. Steps(n) /\ k + 1 # 0
    BY <1>1
  <2>2. PICK q : q = round[k]
    OBVIOUS
  <2>3. round[k + 1] = Next_(q, k + 1)
    BY <1>11, <2>1, <2>2
  <2>4. PICK m \in Nat : m = W * k
    BY Rounds
  <2>5. PICK l \in 1 .. W : l = Smaller(n - m, W)
    BY <2>4, Rounds
  <2>6. Reads(u, q, d, m)
    BY <1>14, <2>2, <2>4, Rounds
  <2>7. Next_(q, k + 1) = Draw(q, d, l, m)
    BY <2>1, <2>4, <2>5 DEF Next_
  <2>8. Reads(u, Draw(q, d, l, m), d, m + l)
    BY <2>6, ReadsMore
  <2>9. Smaller(n, W * (k + 1)) = m + l
    BY <2>4, <2>5, Rounds
  <2>. QED
    BY <2>1, <2>3, <2>7, <2>8, <2>9
<1>. HIDE DEF K
<1>15. Steps(n) \in K
  <2>1. Steps(n) \in Nat /\ \A k \in 0 .. Steps(n) - 1 : k \in K => k + 1 \in K
    BY <1>1, <1>14
  <2>2. \A k \in 0 .. Steps(n) : k \in K
    BY <1>13, <2>1, Induction
  <2>. QED
    BY <2>1, <2>2
<1>16. Reads(u, round[Steps(n)], d, n)
  <2>1. Smaller(n, W * Steps(n)) = n
    <3>1. PICK m \in Nat : m = W * Steps(n)
      BY <1>1, Times
    <3>2. n <= m
      BY <1>1, <3>1
    <3>. QED
      BY <3>1, <3>2, SmallerType
  <2>. QED
    BY <1>15, <2>1 DEF K
<1>. QED
  BY <1>12, <1>16

-----------------------------------------------------------------------------
LEMMA PosIs ==
  ASSUME NEW u \in Unpackers, NEW k \in Nat, Pos(u) = W * k
  PROVE  u.scratchBits = 0 /\ u.r.currOffset = k
<1>1. PICK c \in Nat : c = u.r.currOffset
  BY UnpackerType
<1>2. PICK sb \in 0 .. W - 1 : sb = u.scratchBits
  BY UnpackerType
<1>3. W * c \in Nat /\ W * c = Pos(u) + sb /\ W * k \in Nat
  BY <1>1, <1>2, Times, UnpackerType
<1>4. W * c + 0 = W * k + sb /\ 0 \in 0 .. W - 1
  BY <1>3, Width
<1>5. /\ (W * c + 0) \div W = c /\ (W * c + 0) % W = 0
      /\ (W * k + sb) \div W = k /\ (W * k + sb) % W = sb
  BY <1>4, Composed
<1>. QED
  BY <1>1, <1>2, <1>4, <1>5

LEMMA PosAligned ==
  ASSUME NEW u \in Unpackers, Pos(u) \in Nat
  PROVE  /\ Aligned(Pos(u)) = Pos(u) + u.scratchBits
         /\ Pos(u) % W = 0 => u.scratchBits = 0
         /\ u.scratchBits = 0 => Pos(u) % W = 0 /\ Pos(u) = W * u.r.currOffset
<1>1. PICK c \in Nat : c = u.r.currOffset
  BY UnpackerType
<1>2. PICK sb \in 0 .. W - 1 : sb = u.scratchBits
  BY UnpackerType
<1>3. W * c \in Nat /\ W * c = Pos(u) + sb /\ W \in Nat \ {0}
  BY <1>1, <1>2, Times, UnpackerType, Width
<1>4. CASE sb = 0
  <2>1. 0 \in 0 .. W - 1 /\ Pos(u) = W * c + 0 /\ Pos(u) = W * c
    BY <1>3, <1>4
  <2>2. Aligned(W * c + 0) = W * c /\ (W * c + 0) % W = 0
    BY <2>1, AlignedType, Composed
  <2>. QED
    BY <1>1, <1>2, <1>4, <2>1, <2>2
<1>5. CASE sb # 0
  <2>1. c # 0
    <3>1. c = 0 => W * c = 0
      BY Times
    <3>. QED
      BY <1>3, <1>5, <3>1
  <2>2. PICK k \in Nat : c = k + 1
    <3>1. c - 1 \in Nat /\ c = (c - 1) + 1
      BY <2>1
    <3>. QED
      BY <3>1
  <2>3. PICK b \in 0 .. W - 1 : b = W - sb /\ b # 0
    <3>1. W - sb \in 0 .. W - 1 /\ W - sb # 0
      BY <1>3, <1>5
    <3>. QED
      BY <3>1
  <2>4. W * k \in Nat /\ W * c = W * k + W
    BY <2>2, Times
  <2>5. Pos(u) = W * k + b
    BY <1>3, <2>3, <2>4
  <2>6. Aligned(W * k + b) = W * k + W /\ (W * k + b) % W = b
    BY <2>3, AlignedType, Composed
  <2>. QED
    BY <1>2, <1>3, <1>5, <2>3, <2>4, <2>5, <2>6
<1>. QED
  BY <1>4, <1>5

\* An error may be raised wherever the adapter is.
LEMMA Raised ==
  ASSUME NEW d \in Seq(Bytes), NEW u, Reading(u, d), NEW x \in SUBSET Nat,
         NEW v, v = [ u EXCEPT !.r = RaiseError(u.r, InvalidData), !.res = x ]
  PROVE  Broken(v) /\ v.res = x
<1>1. u \in Unpackers
  BY ReadingType
<1>2. PICK r \in Reader : r = u.r /\ r.overflowOnReadEndPos = TRUE
  BY <1>1, UnpackerType
<1>3. PICK e \in RealErrors : e = InvalidData
  BY Errors
<1>4. PICK q : q = RaiseError(r, e)
  OBVIOUS
<1>5. /\ q \in Reader /\ q.overflowOnReadEndPos = TRUE
      /\ r.currOffset <= r.endReadOffset => q.endReadOffset = 0 /\ q.bufferSize = 0 /\ q.currOffset = e
      /\ ~(r.currOffset <= r.endReadOffset) => q = r
  BY <1>2, <1>4, RaiseBreaks
<1>6. /\ v \in [ r : Reader, scratch : SUBSET Nat, scratchBits : 0 .. W - 1, res : SUBSET Nat ]
      /\ v.r = q /\ v.scratch = u.scratch /\ v.scratchBits = u.scratchBits /\ v.res = x
  BY <1>1, <1>2, <1>3, <1>4, <1>5 DEF Unpackers
<1>7. v \in Unpackers
  BY <1>1, <1>5, <1>6 DEF Unpackers
<1>8. q.endReadOffset = 0 /\ q.bufferSize = 0 /\ q.currOffset \in RealErrors
  <2>1. CASE Healthy(u, d)
    <3>1. r.currOffset <= r.endReadOffset
      BY <1>2, <2>1 DEF Healthy
    <3>. QED
      BY <1>5, <3>1
  <2>2. CASE Broken(u)
    <3>1. r.endReadOffset = 0 /\ r.bufferSize = 0 /\ r.currOffset \in RealErrors
      BY <1>2, <2>2 DEF Broken
    <3>2. ~(r.currOffset <= r.endReadOffset)
      BY <3>1, Errors
    <3>. QED
      BY <1>5, <3>1, <3>2
  <2>. QED
    BY <2>1, <2>2 DEF Reading
<1>. QED
  BY <1>6, <1>7, <1>8 DEF Broken

\* n bytes of d were read as a value: in the order of bytes of the data if
\* they are whole bytes of it.
Takes(u, v, d, n) ==
  /\ Broken(u) => Broken(v)
  /\ Healthy(u, d) =>
       /\ After(u, v, d, W * n)
       /\ Pos(u) + W * n <= W * Len(d) =>
            /\ v.res \in SUBSET (0 .. W * n - 1)
            /\ Slice(Ones(d), Pos(u), W * n) = IF Pos(u) % W = 0 THEN Placed(v.res, n) ELSE v.res

LEMMA UnpackBytesTakes ==
  ASSUME NEW d \in Seq(Bytes), NEW u, Reading(u, d), NEW n \in Nat
  PROVE  Takes(u, UnpackBytes(u, d, n), d, n)
<1>1. u \in Unpackers /\ n * W = W * n /\ W * n \in Nat
  BY ReadingType, Times
<1>2. PICK v : v = UnpackBytes(u, d, n)
  OBVIOUS
<1>3. CASE u.scratchBits # 0
  <2>1. v = ReadBits(u, d, W * n)
    BY <1>1, <1>2, <1>3 DEF UnpackBytes
  <2>2. Reads(u, v, d, W * n)
    BY <1>1, <2>1, ReadBitsReads
  <2>3. ASSUME Healthy(u, d)
        PROVE  Pos(u) % W # 0 /\ Slice(Ones(d), Pos(u), W * n) \in SUBSET (0 .. W * n - 1)
    <3>1. Pos(u) \in Nat
      BY <2>3, ReadingType
    <3>. QED
      BY <1>1, <1>3, <3>1, PosAligned, OnesBelow, SliceIs
  <2>. QED
    BY <1>2, <2>2, <2>3 DEF Reads, Takes
<1>4. CASE u.scratchBits = 0
  <2>. DEFINE r1 == ReadBytes(u.r, n)
              t1 == BytesRead(u.r, d, n)
  <2>1. Fetched(u, d, n, r1, t1)
    BY FetchReads
  <2>2. PICK r \in Reader : r = r1 /\ r.overflowOnReadEndPos = TRUE
    BY <2>1 DEF Fetched
  <2>3. PICK t \in Seq(Bytes) : t = t1 /\ Len(t) = n
    BY <2>1 DEF Fetched
  <2>4. Fetched(u, d, n, r, t)
    BY <2>1, <2>2, <2>3
  <2>5. FromBytes(t) \in SUBSET (0 .. W * n - 1) /\ Placed(FromBytes(t), n) = Ones(t)
    BY <2>3, PlacedBack
  <2>6. PICK x \in SUBSET Nat : x = FromBytes(t)
    BY <1>1, <2>5
  <2>7. v = [ u EXCEPT !.r = r, !.res = x ]
    BY <1>2, <1>4, <2>2, <2>3, <2>6 DEF UnpackBytes
  <2>8. /\ v \in [ r : Reader, scratch : SUBSET Nat, scratchBits : 0 .. W - 1, res : SUBSET Nat ]
        /\ v.r = r /\ v.scratch = u.scratch /\ v.scratchBits = 0 /\ v.res = x
    BY <1>1, <1>4, <2>7 DEF Unpackers
  <2>9. v \in Unpackers /\ u.scratch = {}
    <3>1. u.scratch \in SUBSET (0 .. 0 - 1)
      BY <1>1, <1>4, UnpackerType
    <3>2. u.scratch = {}
      BY <3>1
    <3>. QED
      BY <2>2, <2>8, <3>2 DEF Unpackers
  <2>10. ASSUME Broken(u) PROVE Broken(v)
    BY <2>4, <2>8, <2>9, <2>10 DEF Fetched, Broken
  <2>11. ASSUME Healthy(u, d)
         PROVE  /\ After(u, v, d, W * n)
                /\ Pos(u) + W * n <= W * Len(d) =>
                     Slice(Ones(d), Pos(u), W * n) = IF Pos(u) % W = 0 THEN Placed(x, n) ELSE x
    <3>1. PICK c \in Nat : c = u.r.currOffset
      BY <1>1, UnpackerType
    <3>2. Pos(u) = W * c /\ Pos(u) % W = 0 /\ Len(d) \in Nat
      BY <1>1, <1>4, <2>11, <3>1, PosAligned, ReadingType
    <3>3. W * (c + n) = W * c + W * n /\ c + n \in Nat /\ W * (c + n) \in Nat
      BY <3>1, Times, TimesSum
    <3>4. c + n <= Len(d) <=> Pos(u) + W * n <= W * Len(d)
      BY <3>2, <3>3, TimesOrder
    <3>5. CASE c + n <= Len(d)
      <4>1. /\ r.currOffset = c + n /\ r.endReadOffset = Len(d) /\ r.bufferSize = Len(d)
            /\ t = SubSeq(d, c + 1, c + n)
        BY <2>4, <2>11, <3>1, <3>5 DEF Fetched
      <4>2. Ones(t) = Slice(Ones(d), W * c, W * n)
        BY <3>1, <3>5, <4>1, OnesOfPart
      <4>3. Pos(v) = W * (c + n)
        BY <2>8, <3>3, <4>1 DEF Pos
      <4>4. Slice(Ones(d), Pos(v), 0) = {}
        BY DEF Slice
      <4>5. Healthy(v, d)
        BY <2>8, <2>9, <3>3, <3>5, <4>1, <4>3, <4>4 DEF Healthy
      <4>. QED
        BY <2>5, <2>6, <3>2, <3>3, <3>4, <3>5, <4>2, <4>3, <4>5 DEF After
    <3>6. CASE ~(c + n <= Len(d))
      <4>1. r.currOffset \in RealErrors /\ r.endReadOffset = 0 /\ r.bufferSize = 0
        BY <2>4, <2>11, <3>1, <3>6 DEF Fetched
      <4>2. Broken(v)
        BY <2>8, <2>9, <4>1 DEF Broken
      <4>. QED
        BY <3>4, <3>6, <4>2 DEF After
    <3>. QED
      BY <3>5, <3>6
  <2>. QED
    BY <1>2, <2>5, <2>6, <2>8, <2>10, <2>11 DEF Takes
<1>. QED
  BY <1>3, <1>4

\* Up to the next whole byte, if there are only zeros.
Aligns(u, v, d) ==
  /\ Broken(u) => Broken(v)
  /\ Healthy(u, d) =>
       IF Slice(Ones(d), Pos(u), Aligned(Pos(u)) - Pos(u)) = {}
         THEN Healthy(v, d) /\ Pos(v) = Aligned(Pos(u)) /\ Pos(v) <= W * Len(d)
         ELSE Broken(v)

LEMMA AlignReadAligns ==
  ASSUME NEW d \in Seq(Bytes), NEW u, Reading(u, d)
  PROVE  Aligns(u, AlignRead(u, d), d)
<1>1. u \in Unpackers /\ u.scratchBits \in Nat
  BY ReadingType, UnpackerType
<1>2. PICK sb \in Nat : sb = u.scratchBits
  BY <1>1
<1>3. PICK v : v = ReadBits(u, d, sb)
  OBVIOUS
<1>4. PICK q : q = AlignRead(u, d)
  OBVIOUS
<1>5. q = IF sb = 0 THEN u ELSE IF v.res = {} THEN v
          ELSE [ v EXCEPT !.r = RaiseError(v.r, InvalidData) ]
  BY <1>2, <1>3, <1>4 DEF AlignRead
<1>6. Reads(u, v, d, sb) /\ Reading(v, d)
  BY <1>2, <1>3, ReadBitsReads, ReadsReading
<1>7. Broken([ v EXCEPT !.r = RaiseError(v.r, InvalidData) ])
  <2>1. v \in Unpackers /\ v.res \in SUBSET Nat
    BY <1>6, ReadingType, UnpackerType
  <2>2. PICK e : e = RaiseError(v.r, InvalidData)
    OBVIOUS
  <2>3. [ v EXCEPT !.r = e ] = [ v EXCEPT !.r = e, !.res = v.res ]
    BY <2>1 DEF Unpackers
  <2>. QED
    BY <1>6, <2>1, <2>2, <2>3, Raised
<1>8. ASSUME Broken(u) PROVE Broken(q)
  BY <1>5, <1>6, <1>7, <1>8 DEF Reads
<1>9. ASSUME Healthy(u, d)
      PROVE  IF Slice(Ones(d), Pos(u), Aligned(Pos(u)) - Pos(u)) = {}
               THEN Healthy(q, d) /\ Pos(q) = Aligned(Pos(u)) /\ Pos(q) <= W * Len(d)
               ELSE Broken(q)
  <2>1. PICK a \in Nat : a = Pos(u)
    BY <1>9, ReadingType
  <2>2. Aligned(a) = a + sb /\ Aligned(a) - a = sb
    BY <1>1, <1>2, <2>1, PosAligned
  <2>3. a + sb <= W * Len(d)
    <3>1. PICK c \in Nat : c = u.r.currOffset
      BY <1>1, UnpackerType
    <3>2. W * c = a + sb /\ c <= Len(d) /\ Len(d) \in Nat
      BY <1>1, <1>2, <1>9, <2>1, <3>1, UnpackerType, ReadingType DEF Healthy
    <3>3. W * c <= W * Len(d)
      BY <3>1, <3>2, TimesOrder
    <3>. QED
      BY <3>2, <3>3
  <2>4. Healthy(v, d) /\ Pos(v) = a + sb /\ v.res = Slice(Ones(d), a, sb)
    BY <1>6, <1>9, <2>1, <2>3 DEF Reads, After
  <2>5. CASE sb = 0
    <3>1. Slice(Ones(d), a, sb) = {}
      BY <2>5 DEF Slice
    <3>2. Pos(q) = a + sb /\ Healthy(q, d)
      BY <1>5, <1>9, <2>1, <2>5
    <3>. QED
      BY <2>1, <2>2, <2>3, <3>1, <3>2
  <2>6. CASE sb # 0 /\ v.res = {}
    BY <1>5, <2>1, <2>2, <2>3, <2>4, <2>6
  <2>7. CASE sb # 0 /\ v.res # {}
    BY <1>5, <1>7, <2>1, <2>2, <2>4, <2>7
  <2>. QED
    BY <2>5, <2>6, <2>7
<1>. QED
  BY <1>4, <1>8, <1>9 DEF Aligns

-----------------------------------------------------------------------------
(***************************************************************************)
(* Calls and the bits they are about.                                      *)
(***************************************************************************)
Ops == {"enable", "disable", "align", "bits", "bytes", "bool"}

CallType == [ op : Ops, n : Nat, x : SUBSET Nat ]

\* In the stream S the bits from a up to b are those of call c with the
\* value v.
Says(S, c, v, a, b) ==
  /\ c.op = "bits" => b = a + c.n /\ v = Slice(S, a, c.n)
  /\ c.op = "bytes" => /\ b = a + W * c.n /\ v \in SUBSET (0 .. W * c.n - 1)
                       /\ Slice(S, a, W * c.n) = IF a % W = 0 THEN Placed(v, c.n) ELSE v
  /\ c.op = "bool" => /\ c.n = 1 /\ a % W = 0 /\ b = a + W /\ v \in SUBSET {0}
                      /\ Slice(S, a, W) = v
  /\ c.op \in {"align", "disable"} => b = Aligned(a) /\ v = {} /\ Slice(S, a, b - a) = {}
  /\ c.op = "enable" => a % W = 0 /\ b = a /\ v = {}

LEMMA AlignedIs ==
  ASSUME NEW a \in Nat
  PROVE  /\ Aligned(a) \in Nat /\ a <= Aligned(a) /\ \E k \in Nat : Aligned(a) = W * k
         /\ a % W = 0 => Aligned(a) = a
<1>1. PICK k \in Nat, b \in 0 .. W - 1 : a = W * k + b /\ b = a % W
  BY Parts
<1>2. /\ Aligned(a) = IF b = 0 THEN W * k ELSE W * k + W
      /\ a <= Aligned(a) /\ \E j \in Nat : Aligned(a) = W * j
  BY <1>1, AlignedType
<1>3. PICK m \in Nat : m = W * k
  BY Times
<1>4. a = m + b /\ Aligned(a) = IF b = 0 THEN m ELSE m + W
  BY <1>1, <1>2, <1>3
<1>5. Aligned(a) \in Nat /\ (b = 0 => Aligned(a) = a)
  BY <1>4, Width
<1>. QED
  BY <1>1, <1>2, <1>5

LEMMA SliceAgrees ==
  ASSUME NEW S, NEW T, NEW a \in Nat, NEW n \in Nat,
         \A e \in Nat : e < a + n => (e \in S <=> e \in T)
  PROVE  Slice(S, a, n) = Slice(T, a, n)
<1>1. ASSUME NEW c \in 0 .. n - 1 PROVE a + c \in S <=> a + c \in T
  OBVIOUS
<1>. QED
  BY <1>1 DEF Slice

LEMMA SaysType ==
  ASSUME NEW S, NEW c \in CallType, NEW v, NEW a \in Nat, NEW b,
         Says(S, c, v, a, b)
  PROVE  b \in Nat /\ a <= b
<1>1. c.op \in Ops /\ c.n \in Nat
  BY DEF CallType
<1>2. CASE c.op = "bits"
  BY <1>1, <1>2 DEF Says
<1>3. CASE c.op = "bytes"
  <2>1. PICK m \in Nat : m = W * c.n
    BY <1>1, Times
  <2>. QED
    BY <1>3, <2>1 DEF Says
<1>4. CASE c.op = "bool"
  BY <1>4, Width DEF Says
<1>5. CASE c.op \in {"align", "disable"}
  BY <1>5, AlignedIs DEF Says
<1>6. CASE c.op = "enable"
  BY <1>6 DEF Says
<1>. QED
  BY <1>1, <1>2, <1>3, <1>4, <1>5, <1>6 DEF Ops

\* Streams that agree up to there say the same.
LEMMA SaysAgrees ==
  ASSUME NEW S, NEW T, NEW c \in CallType, NEW v,
         NEW a \in Nat, NEW b, Says(S, c, v, a, b),
         \A e \in Nat : e < b => (e \in S <=> e \in T)
  PROVE  Says(T, c, v, a, b)
<1>1. c.op \in Ops /\ c.n \in Nat /\ b \in Nat /\ a <= b
  BY SaysType DEF CallType
<1>2. ASSUME NEW n \in Nat, a + n = b PROVE Slice(S, a, n) = Slice(T, a, n)
  BY <1>2, SliceAgrees
<1>3. CASE c.op = "bits"
  <2>1. Slice(S, a, c.n) = Slice(T, a, c.n)
    BY <1>1, <1>2, <1>3 DEF Says
  <2>. QED
    BY <1>3, <2>1 DEF Says
<1>4. CASE c.op = "bytes"
  <2>1. PICK m \in Nat : m = W * c.n
    BY <1>1, Times
  <2>2. Slice(S, a, m) = Slice(T, a, m)
    BY <1>2, <1>4, <2>1 DEF Says
  <2>. QED
    BY <1>4, <2>1, <2>2 DEF Says
<1>5. CASE c.op = "bool"
  <2>1. Slice(S, a, W) = Slice(T, a, W)
    BY <1>2, <1>5, Width DEF Says
  <2>. QED
    BY <1>5, <2>1 DEF Says
<1>6. CASE c.op \in {"align", "disable"}
  <2>1. PICK n \in Nat : n = b - a /\ a + n = b
    <3>1. b - a \in Nat /\ a + (b - a) = b
      BY <1>1
    <3>. QED
      BY <3>1
  <2>2. Slice(S, a, n) = Slice(T, a, n)
    BY <1>2, <2>1
  <2>. QED
    BY <1>6, <2>1, <2>2 DEF Says
<1>7. CASE c.op = "enable"
  BY <1>7 DEF Says
<1>. QED
  BY <1>1, <1>3, <1>4, <1>5, <1>6, <1>7 DEF Ops

\* A stream has one value for a call.
LEMMA SaysOne ==
  ASSUME NEW S, NEW c \in CallType, NEW v, NEW w,
         NEW a \in Nat, NEW b, Says(S, c, v, a, b), Says(S, c, w, a, b)
  PROVE  v = w
<1>1. c.op \in Ops /\ c.n \in Nat
  BY DEF CallType
<1>2. CASE c.op = "bytes" /\ a % W = 0
  <2>1. /\ v \in SUBSET (0 .. W * c.n - 1) /\ w \in SUBSET (0 .. W * c.n - 1)
        /\ Placed(v, c.n) = Placed(w, c.n)
    BY <1>2 DEF Says
  <2>. QED
    BY <1>1, <2>1, PlacedDiffer
<1>3. CASE c.op = "bytes" /\ a % W # 0
  BY <1>3 DEF Says
<1>4. CASE c.op # "bytes"
  BY <1>1, <1>4 DEF Says, Ops
<1>. QED
  BY <1>2, <1>3, <1>4

-----------------------------------------------------------------------------
\* q is p after call c: what was written before stays, c is said at the end.
Continues(p, q, c) ==
  /\ Clean(q) /\ Total(p) <= Total(q)
  /\ \A e \in Nat : e < Total(p) => (e \in All(q) <=> e \in All(p))
  /\ Says(All(q), c, c.x, Total(p), Total(q))

Grown(p, q, y, n) ==
  /\ Clean(q) /\ Total(p) \in Nat /\ Total(q) \in Nat /\ Total(q) = Total(p) + n
  /\ \A e \in Nat : e < Total(p) => (e \in All(q) <=> e \in All(p))
  /\ Slice(All(q), Total(p), n) = y

LEMMA GrowsSays ==
  ASSUME NEW p, Clean(p), NEW n \in Nat, NEW y \in SUBSET (0 .. n - 1), NEW q, Grows(p, q, y, n)
  PROVE  Grown(p, q, y, n)
<1>1. /\ Clean(q) /\ Total(p) \in Nat /\ Total(q) = Total(p) + n
      /\ All(q) = All(p) \union Shl(y, Total(p)) /\ All(p) \in SUBSET Nat
      /\ \A c \in All(p) : c < Total(p)
  BY CleanType, PackerType DEF Grows
<1>2. PICK a \in Nat : a = Total(p)
  BY <1>1
<1>3. \A e \in Nat : e \in Shl(y, a) <=> e >= a /\ e - a \in y
  <2>1. y \in SUBSET Nat
    OBVIOUS
  <2>. QED
    BY <2>1, Shifted
<1>4. \A e \in Nat : e < a => (e \in All(q) <=> e \in All(p))
  BY <1>1, <1>2, <1>3
<1>5. ASSUME NEW e \in 0 .. n - 1 PROVE a + e \in All(q) <=> e \in y
  <2>1. a + e \in Nat /\ a + e >= a /\ (a + e) - a = e
    OBVIOUS
  <2>2. a + e \notin All(p)
    BY <1>1, <1>2, <2>1
  <2>3. a + e \in Shl(y, a) <=> e \in y
    BY <1>3, <2>1
  <2>. QED
    BY <1>1, <1>2, <2>2, <2>3
<1>6. Slice(All(q), a, n) = y
  BY <1>5 DEF Slice
<1>. QED
  BY <1>1, <1>2, <1>4, <1>6 DEF Grown

LEMMA BitsContinue ==
  ASSUME NEW p, Clean(p), NEW n \in Nat, NEW x \in SUBSET (0 .. n - 1),
         NEW c, c = [ op |-> "bits", n |-> n, x |-> x ]
  PROVE  Continues(p, WriteBits(p, x, n), c) /\ c \in CallType
<1>1. PICK q : q = WriteBits(p, x, n)
  OBVIOUS
<1>2. Grows(p, q, x, n)
  BY <1>1, WriteBitsGrows
<1>3. /\ Clean(q) /\ Total(p) \in Nat /\ Total(q) \in Nat /\ Total(q) = Total(p) + n
      /\ \A e \in Nat : e < Total(p) => (e \in All(q) <=> e \in All(p))
      /\ Slice(All(q), Total(p), n) = x
  <2>1. Grown(p, q, x, n)
    BY <1>2, GrowsSays
  <2>. QED
    BY <2>1 DEF Grown
<1>4. Says(All(q), c, x, Total(p), Total(q))
  BY <1>3 DEF Says
<1>5. c \in CallType /\ c.x = x
  <2>1. x \in SUBSET Nat /\ "bits" \in Ops
    BY DEF Ops
  <2>. QED
    BY <2>1 DEF CallType
<1>. QED
  BY <1>1, <1>3, <1>4, <1>5 DEF Continues

LEMMA BytesContinue ==
  ASSUME NEW p, Clean(p), NEW n \in Nat, NEW x \in SUBSET (0 .. W * n - 1),
         NEW c, c = [ op |-> "bytes", n |-> n, x |-> x ]
  PROVE  Continues(p, PackBytes(p, x, n), c) /\ c \in CallType
<1>1. PICK q : q = PackBytes(p, x, n)
  OBVIOUS
<1>2. PICK y : y = IF p.scratchBits = 0 THEN Placed(x, n) ELSE x
  OBVIOUS
<1>3. PICK m \in Nat : m = W * n
  BY Times
<1>4. y \in SUBSET (0 .. m - 1)
  BY <1>2, <1>3, PlacedType
<1>5. Grows(p, q, y, m)
  BY <1>1, <1>2, <1>3, PackBytesGrows
<1>6. /\ Clean(q) /\ Total(p) \in Nat /\ Total(q) \in Nat /\ Total(q) = Total(p) + m
      /\ \A e \in Nat : e < Total(p) => (e \in All(q) <=> e \in All(p))
      /\ Slice(All(q), Total(p), m) = y
  <2>1. Grown(p, q, y, m)
    BY <1>4, <1>5, GrowsSays
  <2>. QED
    BY <2>1 DEF Grown
<1>7. p.scratchBits = Total(p) % W
  BY CleanType, TotalIs
<1>8. Says(All(q), c, x, Total(p), Total(q))
  BY <1>2, <1>3, <1>6, <1>7 DEF Says
<1>9. c \in CallType /\ c.x = x
  <2>1. x \in SUBSET Nat /\ "bytes" \in Ops
    BY <1>3 DEF Ops
  <2>. QED
    BY <2>1 DEF CallType
<1>. QED
  BY <1>1, <1>6, <1>8, <1>9 DEF Continues

LEMMA BoolContinues ==
  ASSUME NEW p, Clean(p), p.scratchBits = 0, NEW x \in SUBSET {0},
         NEW c, c = [ op |-> "bool", n |-> 1, x |-> x ]
  PROVE  Continues(p, PackBytes(p, x, 1), c) /\ c \in CallType
<1>1. PICK q : q = PackBytes(p, x, 1)
  OBVIOUS
<1>2. PICK one \in Nat : one = 1 /\ W * one = W
  BY Times
<1>3. x \in SUBSET (0 .. W * one - 1) /\ x \in SUBSET (0 .. W - 1)
  BY <1>2, Width
<1>4. Placed(x, one) = x
  BY <1>2, <1>3, PlacedType
<1>5. Grows(p, q, x, W)
  BY <1>1, <1>2, <1>3, <1>4, PackBytesGrows
<1>6. /\ Clean(q) /\ Total(p) \in Nat /\ Total(q) \in Nat /\ Total(q) = Total(p) + W
      /\ \A e \in Nat : e < Total(p) => (e \in All(q) <=> e \in All(p))
      /\ Slice(All(q), Total(p), W) = x
  <2>1. Grown(p, q, x, W)
    BY <1>3, <1>5, GrowsSays, Width
  <2>. QED
    BY <2>1 DEF Grown
<1>7. Total(p) % W = 0
  BY CleanType, TotalIs
<1>8. Says(All(q), c, x, Total(p), Total(q))
  BY <1>6, <1>7 DEF Says
<1>9. c \in CallType /\ c.x = x
  <2>1. x \in SUBSET Nat /\ "bool" \in Ops
    BY DEF Ops
  <2>. QED
    BY <2>1 DEF CallType
<1>. QED
  BY <1>1, <1>6, <1>8, <1>9, Width DEF Continues

LEMMA AlignContinues ==
  ASSUME NEW p, Clean(p), NEW op \in {"align", "disable"},
         NEW c, c = [ op |-> op, n |-> 0, x |-> {} ]
  PROVE  Continues(p, AlignWrite(p), c) /\ c \in CallType /\ AlignWrite(p).scratchBits = 0
<1>1. PICK q : q = AlignWrite(p)
  OBVIOUS
<1>2. PICK n : n = (W - p.scratchBits) % W
  OBVIOUS
<1>3. n \in Nat
  <2>1. W - p.scratchBits \in Nat
    BY CleanType, PackerType, Width
  <2>. QED
    BY <1>2, <2>1, Parts, Width
<1>4. Grows(p, q, {}, n) /\ Total(q) = Aligned(Total(p)) /\ q.scratchBits = 0
  BY <1>1, <1>2, AlignWriteGrows
<1>5. {} \in SUBSET (0 .. n - 1)
  OBVIOUS
<1>6. /\ Clean(q) /\ Total(p) \in Nat /\ Total(q) \in Nat /\ Total(q) = Total(p) + n
      /\ \A e \in Nat : e < Total(p) => (e \in All(q) <=> e \in All(p))
      /\ Slice(All(q), Total(p), n) = {}
  <2>1. Grown(p, q, {}, n)
    BY <1>3, <1>4, <1>5, GrowsSays
  <2>. QED
    BY <2>1 DEF Grown
<1>7. Total(q) - Total(p) = n
  BY <1>3, <1>6
<1>8. Says(All(q), c, {}, Total(p), Total(q))
  BY <1>4, <1>6, <1>7 DEF Says
<1>9. c \in CallType /\ c.x = {}
  <2>1. {} \in SUBSET Nat /\ op \in Ops
    BY DEF Ops
  <2>. QED
    BY <2>1 DEF CallType
<1>. QED
  BY <1>1, <1>3, <1>4, <1>6, <1>8, <1>9 DEF Continues

LEMMA EnableContinues ==
  ASSUME NEW p, Clean(p), p.scratchBits = 0,
         NEW c, c = [ op |-> "enable", n |-> 0, x |-> {} ]
  PROVE  /\ Continues(p, NewPacker(p.w), c) /\ c \in CallType
         /\ NewPacker(p.w) = p
<1>1. /\ p \in Packers /\ p.scratch \in SUBSET (0 .. 0 - 1)
      /\ p = [ w |-> p.w, scratch |-> p.scratch, scratchBits |-> p.scratchBits ]
      /\ Total(p) \in Nat
  BY CleanType, PackerType DEF Clean
<1>2. p.scratch = {}
  BY <1>1
<1>3. NewPacker(p.w) = p
  BY <1>1, <1>2 DEF NewPacker
<1>4. Total(p) % W = 0
  BY <1>1, TotalIs
<1>5. Says(All(p), c, {}, Total(p), Total(p))
  BY <1>4 DEF Says
<1>6. c \in CallType /\ c.x = {}
  <2>1. {} \in SUBSET Nat /\ "enable" \in Ops
    BY DEF Ops
  <2>. QED
    BY <2>1 DEF CallType
<1>. QED
  BY <1>1, <1>3, <1>5, <1>6 DEF Continues

-----------------------------------------------------------------------------
\* v is u after it made call c, of which the stream S says x, over the bytes
\* d: it has the value that d says, or an error because d has not all the
\* bits or has others that are ones.
Answers(S, u, v, d, c, a, b) ==
  /\ Broken(u) => Broken(v)
  /\ Healthy(u, d) /\ Pos(u) = a =>
       \/ /\ Healthy(v, d) /\ Pos(v) = b /\ b <= W * Len(d)
          /\ Says(Ones(d), c, v.res, a, b)
       \/ /\ Broken(v)
          /\ b <= W * Len(d) => ~(Slice(Ones(d), a, b - a) \subseteq Slice(S, a, b - a))

LEMMA BitsAnswer ==
  ASSUME NEW S, NEW d \in Seq(Bytes), NEW u, Reading(u, d), NEW c \in CallType, c.op = "bits",
         NEW x, NEW a \in Nat, NEW b, Says(S, c, x, a, b)
  PROVE  Answers(S, u, ReadBits(u, d, c.n), d, c, a, b)
<1>1. PICK n \in Nat : n = c.n
  BY DEF CallType
<1>2. PICK v : v = ReadBits(u, d, n)
  OBVIOUS
<1>3. Reads(u, v, d, n)
  BY <1>2, ReadBitsReads
<1>4. b = a + n
  BY <1>1 DEF Says
<1>5. ASSUME Healthy(u, d), Pos(u) = a
      PROVE  \/ /\ Healthy(v, d) /\ Pos(v) = b /\ b <= W * Len(d)
                /\ Says(Ones(d), c, v.res, a, b)
             \/ Broken(v) /\ ~(b <= W * Len(d))
  BY <1>1, <1>3, <1>4, <1>5 DEF Reads, After, Says
<1>. QED
  BY <1>1, <1>2, <1>3, <1>5 DEF Answers, Reads

LEMMA BytesAnswer ==
  ASSUME NEW S, NEW d \in Seq(Bytes), NEW u, Reading(u, d), NEW c \in CallType, c.op = "bytes",
         NEW x, NEW a \in Nat, NEW b, Says(S, c, x, a, b)
  PROVE  Answers(S, u, UnpackBytes(u, d, c.n), d, c, a, b)
<1>1. PICK n \in Nat : n = c.n
  BY DEF CallType
<1>2. PICK v : v = UnpackBytes(u, d, n)
  OBVIOUS
<1>3. Takes(u, v, d, n)
  BY <1>2, UnpackBytesTakes
<1>4. b = a + W * n
  BY <1>1 DEF Says
<1>5. ASSUME Healthy(u, d), Pos(u) = a
      PROVE  \/ /\ Healthy(v, d) /\ Pos(v) = b /\ b <= W * Len(d)
                /\ Says(Ones(d), c, v.res, a, b)
             \/ Broken(v) /\ ~(b <= W * Len(d))
  BY <1>1, <1>3, <1>4, <1>5 DEF Takes, After, Says
<1>. QED
  BY <1>1, <1>2, <1>3, <1>5 DEF Answers, Takes

LEMMA BoolAnswers ==
  ASSUME NEW S, NEW d \in Seq(Bytes), NEW u, Reading(u, d), NEW c \in CallType, c.op = "bool",
         NEW x, NEW a \in Nat, NEW b, Says(S, c, x, a, b)
  PROVE  Answers(S, u, BoolFrom(UnpackBytes(u, d, 1)), d, c, a, b)
<1>1. PICK one \in Nat : one = 1 /\ W * one = W
  BY Times
<1>2. PICK t : t = UnpackBytes(u, d, one)
  OBVIOUS
<1>3. Takes(u, t, d, one)
  BY <1>2, UnpackBytesTakes
<1>4. PICK v : v = BoolFrom(t)
  OBVIOUS
<1>5. /\ c.n = 1 /\ b = a + W /\ a % W = 0 /\ b - a = W
      /\ x \in SUBSET {0} /\ Slice(S, a, W) = x
  BY Width DEF Says
<1>6. Reading(t, d)
  BY <1>3 DEF Takes, Reading, After
<1>7. /\ t.res \subseteq {0} => v = t
      /\ ~(t.res \subseteq {0}) => Broken(v)
  <2>1. CASE t.res \subseteq {0}
    BY <1>4, <2>1 DEF BoolFrom
  <2>2. CASE ~(t.res \subseteq {0})
    <3>1. PICK none \in SUBSET Nat : none = {}
      OBVIOUS
    <3>2. v = [ t EXCEPT !.r = RaiseError(t.r, InvalidData), !.res = none ]
      BY <1>4, <2>2, <3>1 DEF BoolFrom
    <3>3. Broken(v)
      BY <1>6, <3>2, Raised
    <3>. QED
      BY <2>2, <3>3
  <2>. QED
    BY <2>1, <2>2
<1>8. ASSUME Healthy(u, d), Pos(u) = a
      PROVE  \/ /\ Healthy(v, d) /\ Pos(v) = b /\ b <= W * Len(d)
                /\ Says(Ones(d), c, v.res, a, b)
             \/ /\ Broken(v)
                /\ b <= W * Len(d) => ~(Slice(Ones(d), a, b - a) \subseteq Slice(S, a, b - a))
  <2>1. CASE ~(b <= W * Len(d))
    <3>1. Broken(t)
      BY <1>1, <1>3, <1>5, <1>8, <2>1 DEF Takes, After
    <3>2. Broken(v)
      BY <1>7, <3>1
    <3>. QED
      BY <2>1, <3>2
  <2>2. CASE b <= W * Len(d)
    <3>1. /\ Healthy(t, d) /\ Pos(t) = b /\ t.res \in SUBSET (0 .. W * one - 1)
          /\ Slice(Ones(d), a, W) = Placed(t.res, one)
      BY <1>1, <1>3, <1>5, <1>8, <2>2 DEF Takes, After
    <3>2. Slice(Ones(d), a, W) = t.res
      BY <1>1, <3>1, PlacedType
    <3>3. CASE t.res \subseteq {0}
      <4>1. Says(Ones(d), c, t.res, a, b)
        BY <1>5, <3>2, <3>3 DEF Says
      <4>. QED
        BY <1>7, <2>2, <3>1, <3>3, <4>1
    <3>4. CASE ~(t.res \subseteq {0})
      BY <1>5, <1>7, <3>2, <3>4
    <3>. QED
      BY <3>3, <3>4
  <2>. QED
    BY <2>1, <2>2
<1>9. Broken(u) => Broken(v)
  BY <1>3, <1>7 DEF Takes
<1>. QED
  BY <1>1, <1>2, <1>4, <1>8, <1>9 DEF Answers

LEMMA AlignAnswers ==
  ASSUME NEW S, NEW d \in Seq(Bytes), NEW u, Reading(u, d), NEW c \in CallType,
         c.op \in {"align", "disable"},
         NEW x, NEW a \in Nat, NEW b, Says(S, c, x, a, b)
  PROVE  /\ Answers(S, u, [ AlignRead(u, d) EXCEPT !.res = {} ], d, c, a, b)
         /\ [ AlignRead(u, d) EXCEPT !.res = {} ].res \in SUBSET Nat
<1>1. PICK t : t = AlignRead(u, d)
  OBVIOUS
<1>2. PICK v : v = [ t EXCEPT !.res = {} ]
  OBVIOUS
<1>3. Aligns(u, t, d)
  BY <1>1, AlignReadAligns
<1>4. b = Aligned(a) /\ Slice(S, a, b - a) = {}
  BY DEF Says
<1>5. Reading(t, d)
  BY <1>3 DEF Aligns, Reading
<1>6. /\ v.res = {} /\ Pos(v) = Pos(t) /\ (Broken(v) <=> Broken(t))
      /\ (Healthy(v, d) <=> Healthy(t, d))
  <2>1. {} \in SUBSET Nat
    OBVIOUS
  <2>. QED
    BY <1>2, <1>5, <2>1, Emptied
<1>7. ASSUME Healthy(u, d), Pos(u) = a
      PROVE  \/ /\ Healthy(v, d) /\ Pos(v) = b /\ b <= W * Len(d)
                /\ Says(Ones(d), c, v.res, a, b)
             \/ /\ Broken(v)
                /\ b <= W * Len(d) => ~(Slice(Ones(d), a, b - a) \subseteq Slice(S, a, b - a))
  <2>1. CASE Slice(Ones(d), a, b - a) = {}
    <3>1. Healthy(t, d) /\ Pos(t) = b /\ b <= W * Len(d)
      BY <1>3, <1>4, <1>7, <2>1 DEF Aligns
    <3>2. Says(Ones(d), c, {}, a, b)
      BY <1>4, <2>1 DEF Says
    <3>. QED
      BY <1>6, <3>1, <3>2
  <2>2. CASE Slice(Ones(d), a, b - a) # {}
    <3>1. Broken(t)
      BY <1>3, <1>4, <1>7, <2>2 DEF Aligns
    <3>. QED
      BY <1>4, <1>6, <2>2, <3>1
  <2>. QED
    BY <2>1, <2>2
<1>. QED
  BY <1>1, <1>2, <1>3, <1>6, <1>7 DEF Answers, Aligns

LEMMA EnableAnswers ==
  ASSUME NEW S, NEW d \in Seq(Bytes), NEW u, Reading(u, d), NEW c \in CallType, c.op = "enable",
         NEW x, NEW a \in Nat, NEW b, Says(S, c, x, a, b)
  PROVE  Answers(S, u, NewUnpacker(u.r), d, c, a, b)
<1>1. PICK v : v = NewUnpacker(u.r)
  OBVIOUS
<1>2. u \in Unpackers /\ u.r \in Reader /\ u.r.overflowOnReadEndPos = TRUE
  BY ReadingType, UnpackerType
<1>3. PICK r \in Reader : r = u.r /\ r.overflowOnReadEndPos = TRUE
  BY <1>2
<1>4. v = [ r |-> r, res |-> {}, scratch |-> {}, scratchBits |-> 0 ]
  BY <1>1, <1>3 DEF NewUnpacker
<1>5. v \in Unpackers /\ v.r = r /\ v.scratch = {} /\ v.scratchBits = 0 /\ v.res = {}
  <2>1. {} \in SUBSET Nat /\ {} \in SUBSET (0 .. 0 - 1) /\ 0 \in 0 .. W - 1
    BY Width
  <2>. QED
    BY <1>3, <1>4, <2>1, UnpackerIs
<1>6. Broken(u) => Broken(v)
  BY <1>3, <1>5 DEF Broken
<1>7. a % W = 0 /\ b = a
  BY DEF Says
<1>8. ASSUME Healthy(u, d), Pos(u) = a
      PROVE  Healthy(v, d) /\ Pos(v) = b /\ b <= W * Len(d) /\ Says(Ones(d), c, v.res, a, b)
  <2>1. Pos(u) = W * r.currOffset /\ a <= W * Len(d)
    BY <1>2, <1>3, <1>7, <1>8, PosAligned, ReadingType
  <2>2. W * r.currOffset \in Nat
    BY <1>3, Times DEF Reader
  <2>3. Pos(v) = a
    BY <1>5, <1>8, <2>1, <2>2 DEF Pos
  <2>4. Slice(Ones(d), Pos(v), 0) = {}
    BY DEF Slice
  <2>5. Healthy(v, d)
    BY <1>3, <1>5, <1>8, <2>3, <2>4 DEF Healthy
  <2>6. Says(Ones(d), c, {}, a, b)
    BY <1>7 DEF Says
  <2>. QED
    BY <1>5, <1>7, <2>1, <2>3, <2>5, <2>6
<1>. QED
  BY <1>1, <1>6, <1>8 DEF Answers

-----------------------------------------------------------------------------
\* The stream of packer p is what the calls cs say, one after the other: the
\* i-th ends at At[i].
Places(At, cs, p) ==
  /\ At \in [ 0 .. Len(cs) -> Nat ] /\ At[0] = 0 /\ At[Len(cs)] = Total(p)
  /\ \A i \in 0 .. Len(cs) : At[i] <= Total(p)
  /\ \A i \in 1 .. Len(cs) : Says(All(p), cs[i], cs[i].x, At[i - 1], At[i])

LEMMA PlacesMore ==
  ASSUME NEW cs \in Seq(CallType), NEW c \in CallType, NEW p, Clean(p), NEW q,
         Continues(p, q, c), NEW At, Places(At, cs, p)
  PROVE  \E at : Places(at, Append(cs, c), q)
<1>1. PICK n \in Nat : n = Len(cs)
  OBVIOUS
<1>2. PICK ds : ds = Append(cs, c)
  OBVIOUS
<1>3. Len(ds) = n + 1 /\ ds[n + 1] = c /\ \A i \in 1 .. n : ds[i] = cs[i] /\ cs[i] \in CallType
  BY <1>1, <1>2
<1>4. /\ Total(p) \in Nat /\ Total(q) \in Nat /\ Total(p) <= Total(q)
  BY CleanType, PackerType DEF Continues
<1>5. PICK at : at = [ i \in 0 .. n + 1 |-> IF i = n + 1 THEN Total(q) ELSE At[i] ]
  OBVIOUS
<1>6. /\ at \in [ 0 .. n + 1 -> Nat ] /\ at[n + 1] = Total(q)
      /\ \A i \in 0 .. n : at[i] = At[i] /\ At[i] \in Nat /\ At[i] <= Total(p)
      /\ At[n] = Total(p) /\ At[0] = 0
  <2>1. /\ At \in [ 0 .. n -> Nat ] /\ At[0] = 0 /\ At[n] = Total(p)
        /\ \A i \in 0 .. n : At[i] <= Total(p)
    BY <1>1 DEF Places
  <2>2. \A i \in 0 .. n : i \in 0 .. n + 1 /\ i # n + 1
    OBVIOUS
  <2>3. \A i \in 0 .. n : at[i] = At[i]
    BY <1>5, <2>2
  <2>4. at[n + 1] = Total(q)
    BY <1>5
  <2>5. \A i \in 0 .. n + 1 : i # n + 1 => i \in 0 .. n
    OBVIOUS
  <2>6. at \in [ 0 .. n + 1 -> Nat ]
    BY <1>4, <1>5, <2>1, <2>5
  <2>. QED
    BY <2>1, <2>3, <2>4, <2>6
<1>7. \A i \in 0 .. n + 1 : at[i] <= Total(q)
  <2>1. ASSUME NEW i \in 0 .. n + 1 PROVE at[i] <= Total(q)
    <3>1. CASE i = n + 1
      BY <1>4, <1>6, <3>1
    <3>2. CASE i # n + 1
      <4>1. i \in 0 .. n
        BY <3>2
      <4>. QED
        BY <1>4, <1>6, <4>1
    <3>. QED
      BY <3>1, <3>2
  <2>. QED
    BY <2>1
<1>8. ASSUME NEW i \in 1 .. n + 1
      PROVE  Says(All(q), ds[i], ds[i].x, at[i - 1], at[i])
  <2>1. CASE i = n + 1
    <3>1. i - 1 = n /\ n \in 0 .. n
      BY <2>1
    <3>. QED
      BY <1>3, <1>6, <2>1, <3>1 DEF Continues
  <2>2. CASE i # n + 1
    <3>1. i \in 1 .. n /\ i \in 0 .. n /\ i - 1 \in 0 .. n
      BY <2>2
    <3>2. Says(All(p), cs[i], cs[i].x, At[i - 1], At[i])
      BY <1>1, <3>1 DEF Places
    <3>3. \A e \in Nat : e < At[i] => (e \in All(p) <=> e \in All(q))
      <4>1. At[i] \in Nat /\ At[i] <= Total(p)
        BY <1>6, <3>1
      <4>. QED
        BY <1>4, <4>1 DEF Continues
    <3>4. cs[i] \in CallType /\ At[i - 1] \in Nat
      BY <1>3, <1>6, <3>1
    <3>5. Says(All(q), cs[i], cs[i].x, At[i - 1], At[i])
      BY <3>2, <3>3, <3>4, SaysAgrees
    <3>. QED
      BY <1>3, <1>6, <3>1, <3>5
  <2>. QED
    BY <2>1, <2>2
<1>9. 0 \in 0 .. n /\ Len(ds) \in Nat
  BY <1>3
<1>10. Places(at, ds, q)
  BY <1>3, <1>6, <1>7, <1>8, <1>9 DEF Places
<1>. QED
  BY <1>2, <1>10

\* The MeasureSize adapter s in its wrapper counts what p writes.
Counts(s, p) ==
  /\ s \in [ m : [ currPos : Nat, biggestCurrentPos : Nat ], scratchBits : Nat ]
  /\ s.m.currPos = Len(p.w.bytes) /\ s.m.biggestCurrentPos = 0
  /\ s.scratchBits = p.scratchBits

LEMMA MeasureMore ==
  ASSUME NEW s, NEW p, Counts(s, p), NEW n \in Nat, NEW m, m = MeasureWrite(s.m, n)
  PROVE  /\ m \in [ currPos : Nat, biggestCurrentPos : Nat ]
         /\ m.currPos = Len(p.w.bytes) + n /\ m.biggestCurrentPos = 0
<1>1. /\ s.m \in [ currPos : Nat, biggestCurrentPos : Nat ]
      /\ s.m.currPos = Len(p.w.bytes) /\ s.m.biggestCurrentPos = 0
  BY DEF Counts
<1>2. PICK t \in [ currPos : Nat, biggestCurrentPos : Nat ] : t = s.m
  BY <1>1
<1>3. m = [ t EXCEPT !.currPos = @ + n ]
  BY <1>2 DEF MeasureWrite
<1>. QED
  BY <1>1, <1>2, <1>3

LEMMA BitsCounted ==
  ASSUME NEW p, Clean(p), NEW s, Counts(s, p), NEW n \in Nat,
         NEW q, Clean(q), Total(q) = Total(p) + n
  PROVE  Counts(MeasureBits(s, n), q)
<1>1. PICK l \in Nat, sb \in Nat :
        l = Len(p.w.bytes) /\ sb = p.scratchBits /\ Total(p) = W * l + sb /\ W * l \in Nat
  BY CleanType, PackerType DEF Total, Start
<1>2. PICK k \in Nat, b \in 0 .. W - 1 :
        sb + n = W * k + b /\ k = (sb + n) \div W /\ b = (sb + n) % W
  <2>1. sb + n \in Nat
    OBVIOUS
  <2>. QED
    BY <2>1, Parts
<1>3. W * (l + k) = W * l + W * k /\ W * k \in Nat /\ l + k \in Nat
  BY Times, TimesSum
<1>4. Total(q) = W * (l + k) + b
  <2>1. PICK wl \in Nat, wk \in Nat : wl = W * l /\ wk = W * k
    BY <1>1, <1>3
  <2>2. Total(q) = (wl + sb) + n /\ sb + n = wk + b
    BY <1>1, <1>2, <2>1
  <2>3. Total(q) = (wl + wk) + b
    BY <2>2
  <2>. QED
    BY <1>3, <2>1, <2>3
<1>5. Len(q.w.bytes) = l + k /\ q.scratchBits = b
  BY <1>3, <1>4, CleanType, TotalIs, Composed
<1>6. PICK m : m = MeasureWrite(s.m, k)
  OBVIOUS
<1>7. /\ m \in [ currPos : Nat, biggestCurrentPos : Nat ]
      /\ m.currPos = l + k /\ m.biggestCurrentPos = 0
  <2>1. l = Len(p.w.bytes)
    BY <1>1
  <2>. QED
    BY <1>6, <2>1, MeasureMore
<1>8. MeasureBits(s, n) = [ m |-> m, scratchBits |-> b ]
  BY <1>1, <1>2, <1>6 DEF MeasureBits, Counts
<1>9. b \in Nat
  OBVIOUS
<1>. QED
  BY <1>5, <1>7, <1>8, <1>9 DEF Counts

LEMMA BytesCounted ==
  ASSUME NEW p, Clean(p), NEW s, Counts(s, p), NEW n \in Nat,
         NEW q, Clean(q), Total(q) = Total(p) + W * n
  PROVE  Counts(MeasureBytes(s, n), q)
<1>1. PICK l \in Nat, sb \in 0 .. W - 1 :
        l = Len(p.w.bytes) /\ sb = p.scratchBits /\ Total(p) = W * l + sb /\ W * l \in Nat
  BY CleanType, PackerType DEF Total, Start
<1>2. W * (l + n) = W * l + W * n /\ W * n \in Nat /\ l + n \in Nat
  BY Times, TimesSum
<1>3. Total(q) = W * (l + n) + sb
  BY <1>1, <1>2
<1>4. Len(q.w.bytes) = l + n /\ q.scratchBits = sb
  BY <1>2, <1>3, CleanType, TotalIs, Composed
<1>5. PICK m : m = MeasureWrite(s.m, n)
  OBVIOUS
<1>6. /\ m \in [ currPos : Nat, biggestCurrentPos : Nat ]
      /\ m.currPos = l + n /\ m.biggestCurrentPos = 0
  BY <1>1, <1>5, MeasureMore
<1>7. PICK t : t = [ s EXCEPT !.m = m ]
  OBVIOUS
<1>8. MeasureBytes(s, n) = t
  BY <1>5, <1>7 DEF MeasureBytes
<1>9. /\ t \in [ m : [ currPos : Nat, biggestCurrentPos : Nat ], scratchBits : Nat ]
      /\ t.m = m /\ t.scratchBits = sb
  BY <1>1, <1>6, <1>7 DEF Counts
<1>. QED
  BY <1>4, <1>6, <1>8, <1>9 DEF Counts

LEMMA AlignCounted ==
  ASSUME NEW p, Clean(p), NEW s, Counts(s, p),
         NEW q, Clean(q), Total(q) = Aligned(Total(p)), q.scratchBits = 0
  PROVE  Counts(MeasureAlign(s), q)
<1>1. PICK l \in Nat, sb \in 0 .. W - 1 :
        l = Len(p.w.bytes) /\ sb = p.scratchBits /\ Total(p) = W * l + sb
  BY CleanType, PackerType DEF Total, Start
<1>2. Total(q) = IF sb = 0 THEN W * l ELSE W * l + W
  <2>1. Aligned(W * l + sb) = IF sb = 0 THEN W * l ELSE W * l + W
    BY AlignedType
  <2>. QED
    BY <1>1, <2>1
<1>3. W * (l + 1) = W * l + W /\ l + 1 \in Nat /\ W \in Nat
  BY Times, Width
<1>4. Len(q.w.bytes) = IF sb = 0 THEN l ELSE l + 1
  BY <1>2, <1>3, CleanType, TotalIs
<1>5. CASE sb = 0
  BY <1>1, <1>4, <1>5 DEF MeasureAlign, Counts
<1>6. CASE sb # 0
  <2>1. PICK m : m = MeasureWrite(s.m, 1)
    OBVIOUS
  <2>2. /\ m \in [ currPos : Nat, biggestCurrentPos : Nat ]
        /\ m.currPos = l + 1 /\ m.biggestCurrentPos = 0
    <3>1. 1 \in Nat
      OBVIOUS
    <3>. QED
      BY <1>1, <2>1, <3>1, MeasureMore
  <2>3. MeasureAlign(s) = [ m |-> m, scratchBits |-> 0 ]
    BY <1>1, <1>6, <2>1 DEF MeasureAlign, Counts
  <2>. QED
    BY <1>4, <1>6, <2>2, <2>3 DEF Counts
<1>. QED
  BY <1>5, <1>6

-----------------------------------------------------------------------------
(***************************************************************************)
(* The inductive invariant.  The ends At of the calls in the writer's      *)
(* stream are what the reader, whose calls are the same, goes by.          *)
(***************************************************************************)
TypeInv == /\ phase \in {"writing", "reading", "done"} /\ packing \in BOOLEAN
           /\ calls \in Seq(CallType) /\ got \in Seq(SUBSET Nat) /\ data \in Seq(Bytes)

WriterInv == /\ Clean(packer) /\ Counts(measure, packer)
             /\ phase # "writing" \/ ~packing => packer.scratchBits = 0

\* The reader u returned g, and is where as many calls of the writer end, or
\* it has an error, which the bytes of p alone, if all are there, do not
\* give it.
Follows(At, cs, p, d, u, g) ==
  /\ Len(g) <= Len(cs) /\ Len(d) <= Len(p.w.bytes)
  /\ \/ Broken(u) /\ (IsPrefix(d, p.w.bytes) => Len(d) < Len(p.w.bytes))
     \/ /\ Healthy(u, d) /\ Pos(u) = At[Len(g)]
        /\ \A i \in 1 .. Len(g) : /\ At[i] <= W * Len(d)
                                  /\ Says(Ones(d), cs[i], g[i], At[i - 1], At[i])

ReaderInv == /\ phase = "writing" =>
                  got = << >> /\ data = << >> /\ unpacker = NewUnpacker(NewReader(0))
             /\ phase = "done" => Len(got) = Len(calls)

Inv == /\ TypeInv /\ WriterInv /\ ReaderInv
       /\ \E At : /\ Places(At, calls, packer)
                  /\ phase # "writing" => Follows(At, calls, packer, data, unpacker, got)

LEMMA PrefixOnes ==
  ASSUME NEW d \in Seq(Bytes), NEW t \in Seq(Bytes), IsPrefix(d, t)
  PROVE  \A e \in Nat : e < W * Len(d) => (e \in Ones(d) <=> e \in Ones(t))
<1>1. Len(d) \in Nat /\ Len(t) \in Nat
  OBVIOUS
<1>2. Len(d) <= Len(t) /\ SubSeq(d, 1, Len(d)) = SubSeq(t, 1, Len(d))
  BY DEF IsPrefix
<1>3. ASSUME NEW i \in 1 .. Len(d) PROVE d[i] = t[i]
  <2>1. SubSeq(d, 1, Len(d))[i] = d[i] /\ SubSeq(t, 1, Len(d))[i] = t[i]
    BY <1>2
  <2>. QED
    BY <1>2, <2>1
<1>4. ASSUME NEW e \in Nat, e < W * Len(d)
      PROVE  e \in Ones(d) <=> e \in Ones(t)
  <2>1. PICK j \in Nat, b \in 0 .. W - 1 : e = W * j + b
    BY Parts
  <2>2. j < Len(d)
    BY <1>1, <1>4, <2>1, Before
  <2>3. j + 1 \in 1 .. Len(d) /\ j < Len(t)
    BY <1>1, <1>2, <2>2
  <2>. QED
    BY <1>3, <2>1, <2>2, <2>3, OnesAt
<1>. QED
  BY <1>4

\* A packer with nothing left in the scratch.
LEMMA Flushed ==
  ASSUME NEW p, Clean(p), p.scratchBits = 0
  PROVE  Total(p) = W * Len(p.w.bytes) /\ All(p) = Ones(p.w.bytes)
<1>1. p \in Packers /\ p.scratch \in SUBSET (0 .. 0 - 1)
  BY DEF Clean
<1>2. p.scratch = {}
  BY <1>1
<1>3. Shl({}, Start(p)) = {}
  BY DEF Shl
<1>4. Total(p) = Start(p)
  BY <1>1, PackerType
<1>. QED
  BY <1>2, <1>3, <1>4 DEF All, Start

LEMMA FollowsReading ==
  ASSUME NEW At, NEW cs, NEW p, NEW d, NEW u, NEW g, Follows(At, cs, p, d, u, g)
  PROVE  Reading(u, d)
BY DEF Follows, Reading

LEMMA AnswerFollows ==
  ASSUME NEW cs \in Seq(CallType), NEW g \in Seq(SUBSET Nat), NEW d \in Seq(Bytes),
         NEW p, Clean(p), p.scratchBits = 0, NEW At, Places(At, cs, p),
         NEW u, Follows(At, cs, p, d, u, g), Len(g) < Len(cs),
         NEW v, Answers(All(p), u, v, d, cs[Len(g) + 1], At[Len(g)], At[Len(g) + 1])
  PROVE  Follows(At, cs, p, d, v, Append(g, v.res)) /\ Append(g, v.res) \in Seq(SUBSET Nat)
<1>1. PICK n \in Nat : n = Len(g)
  OBVIOUS
<1>2. /\ p.w.bytes \in Seq(Bytes) /\ Len(p.w.bytes) \in Nat /\ Len(d) \in Nat /\ Len(cs) \in Nat
      /\ Total(p) = W * Len(p.w.bytes) /\ All(p) = Ones(p.w.bytes) /\ n < Len(cs)
  BY <1>1, CleanType, PackerType, Flushed
<1>3. /\ n + 1 \in 0 .. Len(cs) /\ n \in 0 .. Len(cs) /\ n + 1 \in 1 .. Len(cs) /\ (n + 1) - 1 = n
  BY <1>1, <1>2
<1>4. PICK a \in Nat, b \in Nat : a = At[n] /\ b = At[n + 1] /\ b <= Total(p)
  BY <1>3 DEF Places
<1>5. PICK c \in CallType : c = cs[n + 1]
  BY <1>3
<1>6. a <= b
  <2>1. Says(All(p), c, c.x, At[(n + 1) - 1], At[n + 1])
    BY <1>3, <1>5 DEF Places
  <2>2. Says(All(p), c, c.x, a, b)
    BY <1>3, <1>4, <2>1
  <2>. QED
    BY <2>2, SaysType
<1>7. Answers(All(p), u, v, d, c, a, b)
  BY <1>1, <1>4, <1>5
<1>8. Len(d) <= Len(p.w.bytes) /\ Reading(u, d)
  BY FollowsReading DEF Follows
<1>9. Broken(v) \/ Healthy(v, d)
  BY <1>7, <1>4, <1>1, <1>8 DEF Answers, Reading, Follows
<1>10. v.res \in SUBSET Nat
  BY <1>9, UnpackerType DEF Healthy, Broken
<1>11. PICK h : h = Append(g, v.res)
  OBVIOUS
<1>12. /\ h \in Seq(SUBSET Nat) /\ Len(h) = n + 1 /\ h[n + 1] = v.res
       /\ \A i \in 1 .. n : h[i] = g[i]
  BY <1>1, <1>10, <1>11
<1>13. CASE Broken(u)
  <2>1. Broken(v)
    BY <1>7, <1>13 DEF Answers
  <2>2. IsPrefix(d, p.w.bytes) => Len(d) < Len(p.w.bytes)
    BY <1>13, ReadingType, <1>8 DEF Follows
  <2>. QED
    BY <1>3, <1>8, <1>11, <1>12, <2>1, <2>2 DEF Follows
<1>14. CASE ~Broken(u)
  <2>1. /\ Healthy(u, d) /\ Pos(u) = a
        /\ \A i \in 1 .. n : /\ At[i] <= W * Len(d)
                             /\ Says(Ones(d), cs[i], g[i], At[i - 1], At[i])
    BY <1>1, <1>4, <1>14 DEF Follows
  <2>2. CASE Healthy(v, d) /\ Pos(v) = b /\ b <= W * Len(d) /\ Says(Ones(d), c, v.res, a, b)
    <3>1. ASSUME NEW i \in 1 .. n + 1
          PROVE  At[i] <= W * Len(d) /\ Says(Ones(d), cs[i], h[i], At[i - 1], At[i])
      <4>1. CASE i = n + 1
        BY <1>3, <1>4, <1>5, <1>12, <2>2, <4>1
      <4>2. CASE i # n + 1
        <5>1. i \in 1 .. n
          BY <4>2
        <5>. QED
          BY <1>12, <2>1, <5>1
      <4>. QED
        BY <4>1, <4>2
    <3>. QED
      BY <1>3, <1>4, <1>8, <1>11, <1>12, <2>2, <3>1 DEF Follows
  <2>3. CASE Broken(v) /\ (b <= W * Len(d) => ~(Slice(Ones(d), a, b - a) \subseteq Slice(All(p), a, b - a)))
    <3>1. ASSUME IsPrefix(d, p.w.bytes) PROVE Len(d) < Len(p.w.bytes)
      <4>1. CASE b <= W * Len(d)
        <5>1. PICK m \in Nat : m = b - a /\ a + m = b
          <6>1. b - a \in Nat /\ a + (b - a) = b
            BY <1>6
          <6>. QED
            BY <6>1
        <5>2. \A e \in Nat : e < W * Len(d) => (e \in Ones(d) <=> e \in All(p))
          BY <1>2, <3>1, PrefixOnes
        <5>3. \A e \in Nat : e < a + m => e < W * Len(d)
          <6>1. W * Len(d) \in Nat
            BY <1>2, Times
          <6>. QED
            BY <4>1, <5>1, <6>1
        <5>4. Slice(Ones(d), a, m) = Slice(All(p), a, m)
          BY <5>2, <5>3, SliceAgrees
        <5>. QED
          BY <2>3, <4>1, <5>1, <5>4
      <4>2. CASE ~(b <= W * Len(d))
        <5>1. Len(d) = Len(p.w.bytes) => W * Len(d) = W * Len(p.w.bytes)
          OBVIOUS
        <5>2. Len(d) # Len(p.w.bytes)
          BY <1>2, <1>4, <4>2, <5>1
        <5>. QED
          BY <1>2, <1>8, <5>2
      <4>. QED
        BY <4>1, <4>2
    <3>. QED
      BY <1>3, <1>8, <1>11, <1>12, <2>3, <3>1 DEF Follows
  <2>. QED
    BY <1>7, <2>1, <2>2, <2>3 DEF Answers
<1>. QED
  BY <1>13, <1>14

\* The reader's first state.
LEMMA FreshFollows ==
  ASSUME NEW cs \in Seq(CallType), NEW p, Clean(p), NEW d \in Seq(Bytes),
         Len(d) <= Len(p.w.bytes), NEW At, Places(At, cs, p)
  PROVE  Follows(At, cs, p, d, NewUnpacker(NewReader(Len(d))), << >>)
<1>1. PICK u : u = NewUnpacker(NewReader(Len(d)))
  OBVIOUS
<1>2. PICK r : r = NewReader(Len(d))
  OBVIOUS
<1>3. /\ r \in Reader /\ r.overflowOnReadEndPos = TRUE /\ r.currOffset = 0
      /\ r.endReadOffset = Len(d) /\ r.bufferSize = Len(d) /\ Len(d) \in Nat
  BY <1>2 DEF NewReader, Reader
<1>4. u = [ r |-> r, res |-> {}, scratch |-> {}, scratchBits |-> 0 ]
  BY <1>1, <1>2 DEF NewUnpacker
<1>5. u \in Unpackers /\ u.r = r /\ u.scratch = {} /\ u.scratchBits = 0
  <2>1. {} \in SUBSET Nat /\ {} \in SUBSET (0 .. 0 - 1) /\ 0 \in 0 .. W - 1
    BY Width
  <2>. QED
    BY <1>3, <1>4, <2>1, UnpackerIs
<1>6. Pos(u) = 0
  <2>1. W * 0 = 0
    BY Times
  <2>. QED
    BY <1>3, <1>5, <2>1 DEF Pos
<1>7. Slice(Ones(d), Pos(u), 0) = {}
  BY DEF Slice
<1>8. Healthy(u, d)
  BY <1>3, <1>5, <1>6, <1>7 DEF Healthy
<1>9. At[0] = 0 /\ Len(cs) \in Nat
  BY DEF Places
<1>. QED
  BY <1>1, <1>6, <1>8, <1>9 DEF Follows

-----------------------------------------------------------------------------
LEMMA InvInit == Init => Inv
<1>. SUFFICES ASSUME Init PROVE Inv
  OBVIOUS
<1>. USE DEF Init
<1>1. TypeInv
  <2>1. << >> \in Seq(CallType) /\ << >> \in Seq(SUBSET Nat) /\ << >> \in Seq(Bytes)
    OBVIOUS
  <2>2. phase \in {"writing", "reading", "done"} /\ packing \in BOOLEAN
    OBVIOUS
  <2>. QED
    BY <2>1, <2>2 DEF TypeInv
<1>2. PICK w : w = NewWriter(<< >>)
  OBVIOUS
<1>3. WriterOK(w) /\ w.bytes = << >> /\ Len(w.bytes) = 0
  BY <1>2 DEF NewWriter, WriterOK, Writer
<1>4. packer.w = w /\ packer.scratch = {} /\ packer.scratchBits = 0
  BY <1>2 DEF NewPacker
<1>5. packer \in Packers
  <2>1. packer \in [ w : Writer(Bytes), scratch : SUBSET Nat, scratchBits : 0 .. W - 1 ]
    <3>1. w \in Writer(Bytes) /\ 0 \in 0 .. W - 1 /\ {} \in SUBSET Nat
      BY <1>3, Width DEF WriterOK
    <3>. QED
      BY <1>2, <3>1 DEF NewPacker
  <2>. QED
    BY <1>3, <1>4, <2>1 DEF Packers
<1>6. Clean(packer)
  BY <1>4, <1>5 DEF Clean
<1>7. Counts(measure, packer)
  <2>1. measure = [ m |-> [ currPos |-> 0, biggestCurrentPos |-> 0 ], scratchBits |-> 0 ]
    BY DEF NewMeasurePacker, NewMeasure
  <2>. QED
    BY <1>3, <1>4, <2>1 DEF Counts
<1>8. Total(packer) = 0
  <2>1. W * 0 = 0
    BY Times
  <2>. QED
    BY <1>3, <1>4, <2>1 DEF Total, Start
<1>9. PICK At : At = [ i \in 0 .. 0 |-> 0 ]
  OBVIOUS
<1>10. Places(At, calls, packer)
  BY <1>8, <1>9 DEF Places
<1>. QED
  BY <1>1, <1>4, <1>6, <1>7, <1>10 DEF Inv, WriterInv, ReaderInv

\* A call of the writer.
LEMMA WriterStep ==
  ASSUME Inv, NEW op, NEW n, NEW x, Call(op, n, x),
         NEW c, c = [ op |-> op, n |-> n, x |-> x ], c \in CallType,
         NEW q, packer' = q, Continues(packer, q, c), Counts(measure', q),
         packing' \in BOOLEAN, packing' = FALSE => q.scratchBits = 0
  PROVE  Inv'
<1>1. /\ phase = "writing" /\ phase' = phase /\ data' = data /\ unpacker' = unpacker
      /\ got' = got /\ calls' = Append(calls, c)
  BY DEF Call
<1>2. PICK At : Places(At, calls, packer)
  BY DEF Inv
<1>3. Clean(packer) /\ calls \in Seq(CallType)
  BY DEF Inv, WriterInv, TypeInv
<1>4. PICK at : Places(at, Append(calls, c), q)
  BY <1>2, <1>3, PlacesMore
<1>5. Places(at, calls', packer')
  BY <1>1, <1>4
<1>6. TypeInv'
  BY <1>1, <1>3 DEF Inv, TypeInv
<1>7. Clean(packer') /\ Counts(measure', packer')
  BY DEF Continues
<1>8. WriterInv'
  BY <1>1, <1>6, <1>7 DEF WriterInv, TypeInv
<1>9. ReaderInv'
  BY <1>1 DEF Inv, ReaderInv
<1>. QED
  BY <1>1, <1>5, <1>6, <1>8, <1>9 DEF Inv

LEMMA WriterNow ==
  ASSUME Inv
  PROVE  /\ Clean(packer) /\ packer \in Packers /\ Counts(measure, packer)
         /\ Total(packer) \in Nat
         /\ phase # "writing" \/ ~packing => packer.scratchBits = 0
         /\ packing \in BOOLEAN
BY CleanType, PackerType DEF Inv, WriterInv, TypeInv

LEMMA InvEnableWrite ==
  ASSUME Inv, EnableWrite
  PROVE  Inv'
<1>1. PICK c : c = [ op |-> "enable", n |-> 0, x |-> {} ]
  OBVIOUS
<1>2. Clean(packer) /\ packer.scratchBits = 0 /\ Counts(measure, packer)
  BY WriterNow DEF EnableWrite
<1>3. Continues(packer, NewPacker(packer.w), c) /\ c \in CallType /\ NewPacker(packer.w) = packer
  BY <1>1, <1>2, EnableContinues
<1>4. packer' = packer /\ packing' = TRUE /\ Call("enable", 0, {})
      /\ measure' = [ measure EXCEPT !.scratchBits = 0 ]
  BY <1>3 DEF EnableWrite
<1>5. PICK q : q = packer
  OBVIOUS
<1>6. PICK s : s = measure
  OBVIOUS
<1>7. Counts([ s EXCEPT !.scratchBits = 0 ], q)
  BY <1>2, <1>5, <1>6 DEF Counts
<1>8. Counts(measure', q) /\ packer' = q /\ Continues(packer, q, c)
  BY <1>3, <1>4, <1>5, <1>6, <1>7
<1>9. packing' \in BOOLEAN /\ (packing' = FALSE => q.scratchBits = 0)
  BY <1>4
<1>. QED
  BY <1>1, <1>3, <1>4, <1>8, <1>9, WriterStep

LEMMA InvAligned ==
  ASSUME Inv, NEW op \in {"align", "disable"}, Call(op, 0, {}),
         packer' = AlignWrite(packer), measure' = MeasureAlign(measure), packing' \in BOOLEAN
  PROVE  Inv'
<1>1. PICK c : c = [ op |-> op, n |-> 0, x |-> {} ]
  OBVIOUS
<1>2. Clean(packer) /\ Counts(measure, packer)
  BY WriterNow
<1>3. PICK q : q = AlignWrite(packer)
  OBVIOUS
<1>4. Continues(packer, q, c) /\ c \in CallType /\ q.scratchBits = 0
  BY <1>1, <1>2, <1>3, AlignContinues
<1>5. Total(q) = Aligned(Total(packer)) /\ Clean(q)
  BY <1>2, <1>3, <1>4, AlignWriteGrows DEF Continues
<1>6. Counts(MeasureAlign(measure), q)
  BY <1>2, <1>4, <1>5, AlignCounted
<1>7. Counts(measure', q) /\ packer' = q
  BY <1>3, <1>6
<1>. QED
  BY <1>1, <1>4, <1>7, WriterStep

LEMMA InvPutBits ==
  ASSUME Inv, NEW f \in BitFields, PutBits(f[1], f[2])
  PROVE  Inv'
<1>0. PICK n \in Nat : n = f[1]
  BY FieldsAssumption
<1>1. PICK x \in SUBSET (0 .. n - 1) : n = f[1] /\ x = f[2]
  BY <1>0, FieldsAssumption
<1>2. PICK c : c = [ op |-> "bits", n |-> n, x |-> x ]
  OBVIOUS
<1>3. /\ packing /\ packing' = packing /\ Call("bits", n, x)
      /\ packer' = WriteBits(packer, x, n) /\ measure' = MeasureBits(measure, n)
  BY <1>1 DEF PutBits
<1>4. Clean(packer) /\ Counts(measure, packer)
  BY WriterNow
<1>5. PICK q : q = WriteBits(packer, x, n)
  OBVIOUS
<1>6. Continues(packer, q, c) /\ c \in CallType
  BY <1>2, <1>4, <1>5, BitsContinue
<1>7. Total(q) = Total(packer) + n /\ Clean(q)
  BY <1>4, <1>5, WriteBitsGrows DEF Grows
<1>8. Counts(MeasureBits(measure, n), q)
  BY <1>4, <1>7, BitsCounted
<1>9. Counts(measure', q) /\ packer' = q
  BY <1>3, <1>5, <1>8
<1>10. packing' \in BOOLEAN /\ (packing' = FALSE => q.scratchBits = 0)
  BY <1>3, WriterNow
<1>. QED
  BY <1>2, <1>3, <1>6, <1>9, <1>10, WriterStep

LEMMA InvPutBytes ==
  ASSUME Inv, NEW op, NEW n \in Nat, NEW x \in SUBSET (0 .. W * n - 1), Call(op, n, x),
         packer' = PackBytes(packer, x, n), measure' = MeasureBytes(measure, n),
         packing' = packing, NEW c, c = [ op |-> op, n |-> n, x |-> x ], c \in CallType,
         Continues(packer, PackBytes(packer, x, n), c)
  PROVE  Inv'
<1>1. Clean(packer) /\ Counts(measure, packer) /\ packing \in BOOLEAN
  BY WriterNow
<1>2. PICK q : q = PackBytes(packer, x, n)
  OBVIOUS
<1>3. Total(q) = Total(packer) + W * n /\ Clean(q)
  BY <1>1, <1>2, PackBytesGrows DEF Grows
<1>4. Counts(MeasureBytes(measure, n), q)
  BY <1>1, <1>3, BytesCounted
<1>5. Counts(measure', q) /\ packer' = q /\ Continues(packer, q, c)
  BY <1>2, <1>4
<1>6. packing' = FALSE => q.scratchBits = 0
  <2>1. ASSUME packing' = FALSE PROVE q.scratchBits = 0
    <3>1. PICK k \in Nat : k = Len(packer.w.bytes)
      BY <1>1, CleanType, PackerType
    <3>2. Total(packer) = W * k
      BY <1>1, <2>1, <3>1, WriterNow, Flushed
    <3>3. Total(q) = W * (k + n) /\ k + n \in Nat
      BY <1>3, <3>2, TimesSum
    <3>. QED
      BY <1>3, <3>3, CleanType, TotalIs
  <2>. QED
    BY <2>1
<1>. QED
  BY <1>1, <1>5, <1>6, WriterStep

LEMMA InvPutValue ==
  ASSUME Inv, NEW f \in ByteFields, PutValue(f[1], f[2])
  PROVE  Inv'
<1>0. PICK n \in Nat : n = f[1]
  BY FieldsAssumption
<1>1. PICK x \in SUBSET (0 .. n * W - 1) : n = f[1] /\ x = f[2]
  BY <1>0, FieldsAssumption
<1>2. x \in SUBSET (0 .. W * n - 1)
  BY <1>1, Times
<1>3. PICK c : c = [ op |-> "bytes", n |-> n, x |-> x ]
  OBVIOUS
<1>4. Continues(packer, PackBytes(packer, x, n), c) /\ c \in CallType
  BY <1>2, <1>3, WriterNow, BytesContinue
<1>5. /\ packing' = packing /\ Call("bytes", n, x)
      /\ packer' = PackBytes(packer, x, n) /\ measure' = MeasureBytes(measure, n)
  BY <1>1 DEF PutValue
<1>. QED
  BY <1>2, <1>3, <1>4, <1>5, InvPutBytes

LEMMA InvPutBool ==
  ASSUME Inv, NEW x \in { {}, {0} }, PutBool(x)
  PROVE  Inv'
<1>1. PICK c : c = [ op |-> "bool", n |-> 1, x |-> x ]
  OBVIOUS
<1>2. /\ ~packing /\ packing' = packing /\ Call("bool", 1, x)
      /\ packer' = PackBytes(packer, x, 1) /\ measure' = MeasureBytes(measure, 1)
  BY DEF PutBool
<1>3. Clean(packer) /\ packer.scratchBits = 0 /\ x \in SUBSET {0}
  BY <1>2, WriterNow
<1>4. Continues(packer, PackBytes(packer, x, 1), c) /\ c \in CallType
  BY <1>1, <1>3, BoolContinues
<1>5. 1 \in Nat /\ x \in SUBSET (0 .. W * 1 - 1)
  BY <1>3, Times, Width
<1>. QED
  BY <1>1, <1>2, <1>4, <1>5, InvPutBytes

LEMMA InvDeliver ==
  ASSUME Inv, Deliver
  PROVE  Inv'
<1>1. /\ phase = "writing" /\ ~packing /\ phase' = "reading" /\ data' \in Arrivals
      /\ packing' = packing /\ packer' = packer /\ measure' = measure /\ calls' = calls
      /\ got' = got /\ unpacker' = NewUnpacker(NewReader(Len(data')))
  BY DEF Deliver, writerVars
<1>2. /\ Clean(packer) /\ packer.w.bytes \in Seq(Bytes) /\ Len(packer.w.bytes) \in Nat
      /\ packer.scratchBits = 0
  BY <1>1, WriterNow, CleanType, PackerType
<1>3. PICK d : d = data'
  OBVIOUS
<1>4. PICK t \in Seq(Bytes) : t = packer.w.bytes
  BY <1>2
<1>5. d \in Seq(Bytes) /\ Len(d) <= Len(t)
  <2>1. CASE d \in { SubSeq(t, 1, n) : n \in 0 .. Len(t) }
    <3>1. PICK n \in 0 .. Len(t) : d = SubSeq(t, 1, n)
      BY <2>1
    <3>2. d = SubSeq(t, 0 + 1, 0 + n) /\ 0 + n <= Len(t) /\ n \in Nat
      BY <3>1
    <3>. QED
      BY <3>2, OnesOfPart
  <2>2. CASE d \in [ 1 .. Len(t) -> Bytes ]
    <3>1. PICK n \in Nat : n = Len(t)
      OBVIOUS
    <3>2. d \in [ 1 .. n -> Bytes ]
      BY <2>2, <3>1
    <3>3. d \in Seq(Bytes) /\ Len(d) = n
      BY <3>2
    <3>. QED
      BY <3>1, <3>3
  <2>. QED
    BY <1>1, <1>3, <1>4, <2>1, <2>2 DEF Arrivals
<1>6. PICK At : Places(At, calls, packer)
  BY DEF Inv
<1>7. calls \in Seq(CallType) /\ got = << >>
  BY <1>1 DEF Inv, TypeInv, ReaderInv
<1>8. Follows(At, calls, packer, d, NewUnpacker(NewReader(Len(d))), << >>)
  BY <1>2, <1>4, <1>5, <1>6, <1>7, FreshFollows
<1>9. Follows(At, calls', packer', data', unpacker', got')
  BY <1>1, <1>3, <1>7, <1>8
<1>10. Places(At, calls', packer')
  BY <1>1, <1>6
<1>11. TypeInv'
  BY <1>1, <1>3, <1>5 DEF Inv, TypeInv
<1>12. WriterInv'
  <2>1. Clean(packer') /\ Counts(measure', packer')
    BY <1>1, WriterNow
  <2>. QED
    BY <1>1, <1>2, <2>1 DEF WriterInv
<1>13. ReaderInv'
  BY <1>1 DEF ReaderInv
<1>. QED
  BY <1>9, <1>10, <1>11, <1>12, <1>13 DEF Inv

\* With v the reader's next call, op, is answered, whatever stream has it
\* where the reader is.
Answering(op, v) ==
  \A S, b : \A a \in Nat :
    /\ Reading(unpacker, data) /\ Now \in CallType /\ Now.op = op
    /\ Says(S, Now, Now.x, a, b)
    => Answers(S, unpacker, v, data, Now, a, b)

\* A call of the reader.
LEMMA ReaderStep ==
  ASSUME Inv, NEW op, Repeat(op), packing' \in BOOLEAN,
         NEW v, unpacker' = v, got' = Append(got, v.res), Answering(op, v)
  PROVE  Inv'
<1>1. /\ phase = "reading" /\ Len(got) < Len(calls) /\ Now.op = op /\ Now = calls[Len(got) + 1]
      /\ phase' = phase /\ packer' = packer /\ measure' = measure /\ calls' = calls /\ data' = data
  BY DEF Repeat, Now, writerVars
<1>2. /\ calls \in Seq(CallType) /\ got \in Seq(SUBSET Nat) /\ data \in Seq(Bytes)
      /\ Clean(packer) /\ packer.scratchBits = 0
  BY <1>1, WriterNow DEF Inv, TypeInv
<1>3. PICK At : Places(At, calls, packer) /\ Follows(At, calls, packer, data, unpacker, got)
  BY <1>1 DEF Inv
<1>4. PICK n \in Nat : n = Len(got)
  BY <1>2
<1>5. /\ n + 1 \in 1 .. Len(calls) /\ n \in 0 .. Len(calls) /\ (n + 1) - 1 = n
      /\ At[n] \in Nat
  <2>1. n + 1 \in 1 .. Len(calls) /\ n \in 0 .. Len(calls) /\ (n + 1) - 1 = n
    BY <1>1, <1>2, <1>4
  <2>. QED
    BY <1>3, <2>1 DEF Places
<1>6. Now \in CallType
  BY <1>1, <1>2, <1>4, <1>5
<1>7. Says(All(packer), Now, Now.x, At[n], At[n + 1])
  <2>1. Says(All(packer), calls[n + 1], calls[n + 1].x, At[(n + 1) - 1], At[n + 1])
    BY <1>3, <1>5 DEF Places
  <2>. QED
    BY <1>1, <1>4, <1>5, <2>1
<1>8. Reading(unpacker, data)
  BY <1>3, FollowsReading
<1>9. Answers(All(packer), unpacker, v, data, Now, At[n], At[n + 1])
  BY <1>1, <1>5, <1>6, <1>7, <1>8 DEF Answering
<1>10. Answers(All(packer), unpacker, v, data, calls[Len(got) + 1], At[Len(got)], At[Len(got) + 1])
  BY <1>1, <1>4, <1>9
<1>11. Follows(At, calls, packer, data, v, Append(got, v.res)) /\ Append(got, v.res) \in Seq(SUBSET Nat)
  BY <1>1, <1>2, <1>3, <1>10, AnswerFollows
<1>12. Follows(At, calls', packer', data', unpacker', got') /\ Places(At, calls', packer')
  BY <1>1, <1>3, <1>11
<1>13. TypeInv'
  BY <1>1, <1>2, <1>11 DEF TypeInv
<1>14. WriterInv'
  <2>1. Clean(packer') /\ Counts(measure', packer')
    BY <1>1, WriterNow
  <2>. QED
    BY <1>1, <1>2, <2>1 DEF WriterInv
<1>15. ReaderInv'
  BY <1>1 DEF ReaderInv
<1>. QED
  BY <1>12, <1>13, <1>14, <1>15 DEF Inv

LEMMA InvReads ==
  ASSUME Inv, EnableRead \/ DisableRead \/ AlignInput \/ GetBits \/ GetValue \/ GetBool
  PROVE  Inv'
<1>1. data \in Seq(Bytes) /\ packing \in BOOLEAN
  BY DEF Inv, TypeInv
<1>2. CASE EnableRead
  <2>1. PICK v : v = NewUnpacker(unpacker.r)
    OBVIOUS
  <2>2. v.res = {}
    BY <2>1 DEF NewUnpacker
  <2>3. /\ Repeat("enable") /\ packing' \in BOOLEAN /\ unpacker' = v
        /\ got' = Append(got, v.res)
    BY <1>2, <2>1, <2>2 DEF EnableRead
  <2>4. Answering("enable", v)
    BY <1>1, <2>1, EnableAnswers DEF Answering
  <2>. QED
    BY <2>3, <2>4, ReaderStep
<1>3. ASSUME NEW op \in {"align", "disable"}, Repeat(op), packing' \in BOOLEAN,
             Returns([ AlignRead(unpacker, data) EXCEPT !.res = {} ])
      PROVE  Inv'
  <2>1. PICK v : v = [ AlignRead(unpacker, data) EXCEPT !.res = {} ]
    OBVIOUS
  <2>2. unpacker' = v /\ got' = Append(got, v.res)
    BY <1>3, <2>1 DEF Returns
  <2>3. Answering(op, v)
    BY <1>1, <2>1, AlignAnswers DEF Answering
  <2>. QED
    BY <1>3, <2>2, <2>3, ReaderStep
<1>4. CASE DisableRead
  BY <1>3, <1>4 DEF DisableRead
<1>5. CASE AlignInput
  BY <1>1, <1>3, <1>5 DEF AlignInput
<1>6. CASE GetBits
  <2>1. PICK v : v = ReadBits(unpacker, data, Now.n)
    OBVIOUS
  <2>2. /\ Repeat("bits") /\ packing' \in BOOLEAN /\ unpacker' = v
        /\ got' = Append(got, v.res)
    BY <1>1, <1>6, <2>1 DEF GetBits, Returns
  <2>3. Answering("bits", v)
    BY <1>1, <2>1, BitsAnswer DEF Answering
  <2>. QED
    BY <2>2, <2>3, ReaderStep
<1>7. CASE GetValue
  <2>1. PICK v : v = UnpackBytes(unpacker, data, Now.n)
    OBVIOUS
  <2>2. /\ Repeat("bytes") /\ packing' \in BOOLEAN /\ unpacker' = v
        /\ got' = Append(got, v.res)
    BY <1>1, <1>7, <2>1 DEF GetValue, Returns
  <2>3. Answering("bytes", v)
    BY <1>1, <2>1, BytesAnswer DEF Answering
  <2>. QED
    BY <2>2, <2>3, ReaderStep
<1>8. CASE GetBool
  <2>1. PICK v : v = BoolFrom(UnpackBytes(unpacker, data, 1))
    OBVIOUS
  <2>2. /\ Repeat("bool") /\ packing' \in BOOLEAN /\ unpacker' = v
        /\ got' = Append(got, v.res)
    BY <1>1, <1>8, <2>1 DEF GetBool, Returns
  <2>3. Answering("bool", v)
    BY <1>1, <2>1, BoolAnswers DEF Answering
  <2>. QED
    BY <2>2, <2>3, ReaderStep
<1>. QED
  BY <1>2, <1>4, <1>5, <1>6, <1>7, <1>8

LEMMA InvFinish ==
  ASSUME Inv, Finish
  PROVE  Inv'
<1>1. /\ phase = "reading" /\ phase' = "done" /\ Len(got) = Len(calls)
      /\ packing' = packing /\ packer' = packer /\ measure' = measure /\ calls' = calls
      /\ data' = data /\ unpacker' = unpacker /\ got' = got
  BY DEF Finish, writerVars
<1>2. PICK At : Places(At, calls, packer) /\ Follows(At, calls, packer, data, unpacker, got)
  BY <1>1 DEF Inv
<1>3. Follows(At, calls', packer', data', unpacker', got') /\ Places(At, calls', packer')
  BY <1>1, <1>2
<1>4. TypeInv'
  BY <1>1 DEF Inv, TypeInv
<1>5. WriterInv'
  <2>1. Clean(packer') /\ Counts(measure', packer') /\ packer.scratchBits = 0
    BY <1>1, WriterNow
  <2>. QED
    BY <1>1, <2>1 DEF WriterInv
<1>6. ReaderInv'
  BY <1>1 DEF ReaderInv
<1>. QED
  BY <1>3, <1>4, <1>5, <1>6 DEF Inv

LEMMA InvNext == Inv /\ [Next]_vars => Inv'
<1>. SUFFICES ASSUME Inv, [Next]_vars PROVE Inv'
  OBVIOUS
<1>1. CASE EnableWrite
  BY <1>1, InvEnableWrite
<1>2. CASE DisableWrite
  BY <1>2, InvAligned DEF DisableWrite
<1>3. CASE Align
  <2>1. packing' \in BOOLEAN
    BY <1>3, WriterNow DEF Align
  <2>. QED
    BY <1>3, <2>1, InvAligned DEF Align
<1>4. CASE \E f \in BitFields : PutBits(f[1], f[2])
  BY <1>4, InvPutBits
<1>5. CASE \E f \in ByteFields : PutValue(f[1], f[2])
  BY <1>5, InvPutValue
<1>6. CASE \E x \in { {}, {0} } : PutBool(x)
  BY <1>6, InvPutBool
<1>7. CASE Deliver
  BY <1>7, InvDeliver
<1>8. CASE EnableRead \/ DisableRead \/ AlignInput \/ GetBits \/ GetValue \/ GetBool
  BY <1>8, InvReads
<1>9. CASE Finish
  BY <1>9, InvFinish
<1>10. CASE UNCHANGED vars
  <2>1. /\ packing' = packing /\ packer' = packer /\ measure' = measure /\ calls' = calls
        /\ data' = data /\ unpacker' = unpacker /\ got' = got /\ phase' = phase
    BY <1>10 DEF vars
  <2>2. PICK At : /\ Places(At, calls, packer)
                  /\ phase # "writing" => Follows(At, calls, packer, data, unpacker, got)
    BY DEF Inv
  <2>3. /\ Places(At, calls', packer')
        /\ phase' # "writing" => Follows(At, calls', packer', data', unpacker', got')
    BY <2>1, <2>2
  <2>4. TypeInv' /\ ReaderInv'
    BY <2>1 DEF Inv, TypeInv, ReaderInv
  <2>5. WriterInv'
    <3>1. Clean(packer') /\ Counts(measure', packer')
      BY <2>1, WriterNow
    <3>. QED
      BY <2>1, <3>1, WriterNow DEF WriterInv
  <2>. QED
    BY <2>3, <2>4, <2>5 DEF Inv
<1>. QED
  BY <1>1, <1>2, <1>3, <1>4, <1>5, <1>6, <1>7, <1>8, <1>9, <1>10 DEF Next

-----------------------------------------------------------------------------
(***************************************************************************)
(* Theorems.                                                               *)
(***************************************************************************)

\* A broken reader has an error, which also keeps it from having completed.
LEMMA BrokenIs ==
  ASSUME NEW u, Broken(u)
  PROVE  GetError(u.r) # NoError /\ ~IsCompletedSuccessfully(u.r)
<1>1. /\ u.r.endReadOffset = 0 /\ u.r.bufferSize = 0
      /\ u.r.currOffset \in Nat /\ u.r.currOffset > 0
  BY Errors DEF Broken
<1>2. GetError(u.r) = u.r.currOffset
  BY <1>1 DEF GetError
<1>. QED
  BY <1>1, <1>2 DEF IsCompletedSuccessfully, NoError

LEMMA HealthyIs ==
  ASSUME NEW d \in Seq(Bytes), NEW u, Healthy(u, d)
  PROVE  GetError(u.r) = NoError
<1>1. u.r.currOffset <= u.r.endReadOffset
  BY DEF Healthy
<1>. QED
  BY <1>1 DEF GetError

\* What a reader that is not broken returned, over a part of the bytes.
Returned(cs, p, d, u, g) ==
  /\ \A i \in 1 .. Len(g) : g[i] = cs[i].x
  /\ Len(g) = Len(cs) => /\ Len(d) = Len(p.w.bytes)
                         /\ IsCompletedSuccessfully(u.r)

LEMMA ReadsBack ==
  ASSUME NEW cs \in Seq(CallType), NEW p, Clean(p), p.scratchBits = 0,
         NEW At, Places(At, cs, p), NEW d \in Seq(Bytes), NEW u,
         NEW g \in Seq(SUBSET Nat), Follows(At, cs, p, d, u, g), ~Broken(u),
         IsPrefix(d, p.w.bytes)
  PROVE  Returned(cs, p, d, u, g)
<1>1. /\ Len(g) <= Len(cs) /\ Len(d) <= Len(p.w.bytes)
      /\ Healthy(u, d) /\ Pos(u) = At[Len(g)]
      /\ \A i \in 1 .. Len(g) : /\ At[i] <= W * Len(d)
                                /\ Says(Ones(d), cs[i], g[i], At[i - 1], At[i])
  BY DEF Follows
<1>2. /\ p.w.bytes \in Seq(Bytes) /\ Len(p.w.bytes) \in Nat /\ Len(d) \in Nat
      /\ Len(cs) \in Nat /\ Len(g) \in Nat
      /\ Total(p) = W * Len(p.w.bytes) /\ All(p) = Ones(p.w.bytes) /\ W * Len(d) \in Nat
  <2>1. /\ p.w.bytes \in Seq(Bytes) /\ Len(p.w.bytes) \in Nat
        /\ Total(p) = W * Len(p.w.bytes) /\ All(p) = Ones(p.w.bytes)
    BY CleanType, PackerType, Flushed
  <2>2. Len(d) \in Nat /\ Len(cs) \in Nat /\ Len(g) \in Nat
    OBVIOUS
  <2>. QED
    BY <2>1, <2>2, Times
<1>3. \A e \in Nat : e < W * Len(d) => (e \in Ones(d) <=> e \in All(p))
  BY <1>2, PrefixOnes
<1>4. ASSUME NEW i \in 1 .. Len(g) PROVE g[i] = cs[i].x
  <2>1. i \in 1 .. Len(cs) /\ i \in 0 .. Len(cs) /\ i - 1 \in 0 .. Len(cs) /\ cs[i] \in CallType
    BY <1>1, <1>2
  <2>2. At[i] \in Nat /\ At[i - 1] \in Nat /\ At[i] <= W * Len(d)
    BY <1>1, <2>1 DEF Places
  <2>3. Says(All(p), cs[i], cs[i].x, At[i - 1], At[i])
    BY <2>1 DEF Places
  <2>4. \A e \in Nat : e < At[i] => (e \in Ones(d) <=> e \in All(p))
    BY <1>2, <1>3, <2>2
  <2>5. Says(Ones(d), cs[i], g[i], At[i - 1], At[i])
    BY <1>1
  <2>6. Says(All(p), cs[i], g[i], At[i - 1], At[i])
    BY <2>1, <2>2, <2>4, <2>5, SaysAgrees
  <2>. QED
    BY <2>1, <2>2, <2>3, <2>6, SaysOne
<1>5. ASSUME Len(g) = Len(cs)
      PROVE  Len(d) = Len(p.w.bytes) /\ IsCompletedSuccessfully(u.r)
  <2>1. Pos(u) = W * Len(p.w.bytes)
    BY <1>1, <1>2, <1>5 DEF Places
  <2>2. u \in Unpackers /\ Reading(u, d)
    BY <1>1 DEF Healthy, Reading
  <2>3. u.r.currOffset = Len(p.w.bytes)
    BY <1>2, <2>1, <2>2, PosIs
  <2>4. u.r.currOffset <= Len(d) /\ u.r.endReadOffset = Len(d) /\ u.r.bufferSize = Len(d)
    BY <1>1 DEF Healthy
  <2>5. Len(d) = Len(p.w.bytes)
    BY <1>1, <1>2, <2>3, <2>4
  <2>. QED
    BY <1>1, <2>3, <2>4, <2>5, HealthyIs DEF IsCompletedSuccessfully
<1>. QED
  BY <1>4, <1>5 DEF Returned

\* The same of the variables.
LEMMA ReaderNow ==
  ASSUME Inv, phase # "writing"
  PROVE  /\ Broken(unpacker) \/ GetError(unpacker.r) = NoError
         /\ Broken(unpacker) => ~Whole
         /\ Part /\ ~Broken(unpacker) => Returned(calls, packer, data, unpacker, got)
         /\ phase = "done" => Len(got) = Len(calls)
         /\ WrittenBytesCount(packer.w) = Len(packer.w.bytes)
<1>1. PICK At : Places(At, calls, packer) /\ Follows(At, calls, packer, data, unpacker, got)
  BY DEF Inv
<1>2. /\ calls \in Seq(CallType) /\ got \in Seq(SUBSET Nat) /\ data \in Seq(Bytes)
      /\ Clean(packer) /\ packer.scratchBits = 0
  BY WriterNow DEF Inv, TypeInv
<1>3. Broken(unpacker) \/ GetError(unpacker.r) = NoError
  BY <1>1, <1>2, HealthyIs DEF Follows
<1>4. Broken(unpacker) => ~Whole
  <2>1. ASSUME Broken(unpacker), Whole PROVE FALSE
    <3>1. ~Healthy(unpacker, data)
      BY <1>1, <1>2, <2>1, FollowsReading, ReadingType
    <3>2. IsPrefix(data, packer.w.bytes) => Len(data) < Len(packer.w.bytes)
      BY <1>1, <3>1 DEF Follows
    <3>3. IsPrefix(data, data) /\ ~(Len(data) < Len(data))
      BY <1>2 DEF IsPrefix
    <3>. QED
      BY <2>1, <3>2, <3>3 DEF Whole
  <2>. QED
    BY <2>1
<1>5. Part /\ ~Broken(unpacker) => Returned(calls, packer, data, unpacker, got)
  BY <1>1, <1>2, ReadsBack DEF Part
<1>6. phase = "done" => Len(got) = Len(calls)
  BY DEF Inv, ReaderInv
<1>7. WrittenBytesCount(packer.w) = Len(packer.w.bytes)
  BY WriterNow, PackerType
<1>. QED
  BY <1>3, <1>4, <1>5, <1>6, <1>7

LEMMA InvTypes == Inv => TypeOK
<1>. SUFFICES ASSUME Inv PROVE TypeOK
  OBVIOUS
<1>1. /\ packer.w \in Writer(Bytes) /\ packer.scratchBits \in 0 .. W - 1
      /\ packer.scratch \subseteq 0 .. packer.scratchBits - 1
  BY WriterNow DEF Clean, Packers
<1>2. data \in Seq(Bytes)
  BY DEF Inv, TypeInv
<1>3. unpacker \in Unpackers
  <2>1. CASE phase = "writing"
    <3>1. unpacker = NewUnpacker(NewReader(0))
      BY <2>1 DEF Inv, ReaderInv
    <3>2. PICK r : r = NewReader(0)
      OBVIOUS
    <3>3. r \in Reader /\ r.overflowOnReadEndPos = TRUE
      BY <3>2 DEF NewReader, Reader
    <3>4. unpacker = [ r |-> r, res |-> {}, scratch |-> {}, scratchBits |-> 0 ]
      BY <3>1, <3>2 DEF NewUnpacker
    <3>5. {} \in SUBSET Nat /\ {} \in SUBSET (0 .. 0 - 1) /\ 0 \in 0 .. W - 1
      BY Width
    <3>. QED
      BY <3>3, <3>4, <3>5, UnpackerIs
  <2>2. CASE phase # "writing"
    BY <1>2, <2>2, FollowsReading, ReadingType DEF Inv
  <2>. QED
    BY <2>1, <2>2
<1>4. /\ unpacker.r \in Reader /\ unpacker.scratchBits \in 0 .. W - 1
      /\ unpacker.scratch \subseteq 0 .. unpacker.scratchBits - 1
  BY <1>3, UnpackerType
<1>. QED
  BY <1>1, <1>2, <1>4 DEF TypeOK

\* Neither wrapper ever keeps a whole byte back, nor has it a one above the
\* bits it counts, which the next value would be joined to
\* (writeBitsInternal, readBitsInternal).
THEOREM TypeCorrect == Spec => []TypeOK
BY InvInit, InvNext, InvTypes, PTL DEF Spec

\* MeasureSize and its wrapper count what the buffer adapter and its wrapper
\* write, the bits of the byte that is not full included.
THEOREM MeasureStaysInStep == Spec => []MeasuredInStep
<1>1. Inv => MeasuredInStep
  <2>. SUFFICES ASSUME Inv PROVE MeasuredInStep
    OBVIOUS
  <2>1. /\ Counts(measure, packer) /\ WrittenBytesCount(packer.w) = Len(packer.w.bytes)
        /\ Len(packer.w.bytes) \in Nat
    BY WriterNow, PackerType
  <2>2. /\ measure.m.currPos = Len(packer.w.bytes) /\ measure.m.biggestCurrentPos = 0
        /\ measure.scratchBits = packer.scratchBits
    BY <2>1 DEF Counts
  <2>3. MeasuredBytesCount(measure.m) = Len(packer.w.bytes)
    BY <2>1, <2>2 DEF MeasuredBytesCount, Larger
  <2>. QED
    BY <2>1, <2>2, <2>3 DEF MeasuredInStep
<1>. QED
  BY InvInit, InvNext, <1>1, PTL DEF Spec

\* The same calls read back every value that was written, whole bytes and
\* bits in any order, with the wrapper and without it, with no error and to
\* the last byte.
THEOREM WrittenIsReadBack == Spec => []RoundTrip
<1>1. Inv => RoundTrip
  <2>. SUFFICES ASSUME Inv, Whole
                PROVE  /\ \A i \in 1 .. Len(got) : got[i] = calls[i].x
                       /\ GetError(unpacker.r) = NoError
                       /\ phase = "done" => IsCompletedSuccessfully(unpacker.r)
    BY DEF RoundTrip
  <2>1. phase # "writing" /\ data \in Seq(Bytes) /\ data = packer.w.bytes
    BY DEF Whole, Inv, TypeInv
  <2>2. ~Broken(unpacker) /\ GetError(unpacker.r) = NoError
    BY <2>1, ReaderNow
  <2>3. Part
    BY <2>1 DEF Part, IsPrefix
  <2>4. /\ Returned(calls, packer, data, unpacker, got)
        /\ phase = "done" => Len(got) = Len(calls)
    BY <2>1, <2>2, <2>3, ReaderNow
  <2>. QED
    BY <2>2, <2>4 DEF Returned
<1>. QED
  BY InvInit, InvNext, <1>1, PTL DEF Spec

\* A reader that has only the first bytes returns no wrong value without an
\* error, and cannot make all the calls without one.
THEOREM PartIsNoticed == Spec => []TruncationIsNoticed
<1>1. Inv => TruncationIsNoticed
  <2>. SUFFICES ASSUME Inv, Part
                PROVE  /\ GetError(unpacker.r) = NoError =>
                            \A i \in 1 .. Len(got) : got[i] = calls[i].x
                       /\ phase = "done" /\ Len(data) < WrittenBytesCount(packer.w) =>
                            GetError(unpacker.r) # NoError /\ ~IsCompletedSuccessfully(unpacker.r)
    BY DEF TruncationIsNoticed
  <2>1. phase # "writing" /\ Len(data) \in Nat
    BY DEF Part, Inv, TypeInv
  <2>2. CASE Broken(unpacker)
    BY <2>2, BrokenIs
  <2>3. CASE ~Broken(unpacker)
    <3>1. /\ Returned(calls, packer, data, unpacker, got)
          /\ phase = "done" => Len(got) = Len(calls)
          /\ WrittenBytesCount(packer.w) = Len(packer.w.bytes)
      BY <2>1, <2>3, ReaderNow
    <3>. QED
      BY <2>1, <3>1 DEF Returned
  <2>. QED
    BY <2>2, <2>3
<1>. QED
  BY InvInit, InvNext, <1>1, PTL DEF Spec

-----------------------------------------------------------------------------
\* The packer p has written the bits of the stream T up to a, and no others.
Rewrites(T, p, a) ==
  /\ Clean(p) /\ Total(p) = a
  /\ \A e \in Nat : e \in All(p) <=> e < a /\ e \in T

LEMMA GrowsRewrites ==
  ASSUME NEW T \in SUBSET Nat, NEW p, NEW a \in Nat, Rewrites(T, p, a), NEW n \in Nat,
         NEW y, y = Slice(T, a, n), NEW q, Grows(p, q, y, n)
  PROVE  Rewrites(T, q, a + n)
<1>1. /\ y \in SUBSET (0 .. n - 1) /\ y \in SUBSET Nat
      /\ \A c \in Nat : c \in y <=> c < n /\ a + c \in T
  BY SliceIs
<1>2. /\ Clean(p) /\ Total(p) = a /\ Clean(q) /\ Total(q) = a + n
      /\ All(q) = All(p) \union Shl(y, a)
      /\ \A e \in Nat : e \in All(p) <=> e < a /\ e \in T
  BY DEF Rewrites, Grows
<1>3. \A e \in Nat : e \in Shl(y, a) <=> e >= a /\ e - a \in y
  BY <1>1, Shifted
<1>4. ASSUME NEW e \in Nat
      PROVE  e \in All(q) <=> e < a + n /\ e \in T
  <2>1. CASE e < a
    BY <1>2, <1>3, <2>1
  <2>2. CASE e >= a
    <3>1. PICK c \in Nat : c = e - a /\ e = a + c
      <4>1. e - a \in Nat /\ e = a + (e - a)
        BY <2>2
      <4>. QED
        BY <4>1
    <3>2. e \in Shl(y, a) <=> c < n /\ e \in T
      BY <1>1, <1>3, <2>2, <3>1
    <3>3. c < n <=> e < a + n
      BY <3>1
    <3>. QED
      BY <1>2, <2>2, <3>2, <3>3
  <2>. QED
    BY <2>1, <2>2
<1>. QED
  BY <1>2, <1>4 DEF Rewrites

\* What a writer of call c makes of its packer for the value v.
Rewrite(c, v, p) ==
  CASE c.op = "bits" -> WriteBits(p, v, c.n)
    [] c.op \in {"bytes", "bool"} -> PackBytes(p, v, c.n)
    [] c.op \in {"align", "disable"} -> AlignWrite(p)
    [] OTHER -> p

LEMMA RewriteSays ==
  ASSUME NEW T \in SUBSET Nat, NEW p, NEW a \in Nat, Rewrites(T, p, a),
         NEW c \in CallType, NEW v, NEW b, Says(T, c, v, a, b)
  PROVE  Rewrites(T, Rewrite(c, v, p), b)
<1>1. Clean(p) /\ Total(p) = a /\ p \in Packers /\ p.scratchBits = a % W
  BY CleanType, TotalIs DEF Rewrites
<1>2. c.op \in Ops
  BY DEF CallType
<1>3. PICK n \in Nat : n = c.n
  BY DEF CallType
<1>4. PICK q : q = Rewrite(c, v, p)
  OBVIOUS
<1>5. CASE c.op = "bits"
  <2>1. v = Slice(T, a, n) /\ b = a + n
    BY <1>3, <1>5 DEF Says
  <2>2. q = WriteBits(p, v, n)
    BY <1>3, <1>4, <1>5 DEF Rewrite
  <2>3. v \in SUBSET (0 .. n - 1)
    BY <2>1, SliceIs
  <2>4. Grows(p, q, v, n)
    BY <1>1, <2>2, <2>3, WriteBitsGrows
  <2>. QED
    BY <1>4, <2>1, <2>4, GrowsRewrites
<1>6. CASE c.op \in {"bytes", "bool"}
  <2>1. q = PackBytes(p, v, n)
    BY <1>3, <1>4, <1>6 DEF Rewrite
  <2>2. PICK m \in Nat : m = W * n
    BY Times
  <2>3. PICK y : y = IF p.scratchBits = 0 THEN Placed(v, n) ELSE v
    OBVIOUS
  <2>4. v \in SUBSET (0 .. W * n - 1) /\ y = Slice(T, a, m) /\ b = a + m
    <3>1. CASE c.op = "bytes"
      BY <1>1, <1>3, <2>2, <2>3, <3>1 DEF Says
    <3>2. CASE c.op = "bool"
      <4>1. /\ n = 1 /\ a % W = 0 /\ b = a + W /\ v \in SUBSET {0} /\ Slice(T, a, W) = v
        BY <1>3, <3>2 DEF Says
      <4>2. m = W
        BY <2>2, <4>1, Times
      <4>3. v \in SUBSET (0 .. W * n - 1)
        <5>1. v \in SUBSET (0 .. W - 1)
          BY <4>1, Width
        <5>. QED
          BY <2>2, <4>2, <5>1
      <4>4. Placed(v, n) = v
        BY <4>1, <4>3, PlacedType
      <4>. QED
        BY <2>3, <4>1, <4>2, <4>3, <4>4
    <3>. QED
      BY <1>6, <3>1, <3>2
  <2>5. Grows(p, q, y, m)
    BY <1>1, <2>1, <2>2, <2>3, <2>4, PackBytesGrows
  <2>. QED
    BY <1>4, <2>4, <2>5, GrowsRewrites
<1>7. CASE c.op \in {"align", "disable"}
  <2>1. q = AlignWrite(p)
    BY <1>4, <1>7 DEF Rewrite
  <2>2. b = Aligned(a) /\ Slice(T, a, b - a) = {}
    BY <1>7 DEF Says
  <2>3. PICK n0 : n0 = (W - p.scratchBits) % W
    OBVIOUS
  <2>4. n0 \in Nat
    <3>1. W - p.scratchBits \in Nat
      <4>1. PICK sb \in 0 .. W - 1 : sb = p.scratchBits
        BY <1>1, PackerType
      <4>. QED
        BY <4>1, Width
    <3>. QED
      BY <2>3, <3>1, Parts, Width
  <2>5. Grows(p, q, {}, n0) /\ Total(q) = b
    BY <1>1, <2>1, <2>2, <2>3, AlignWriteGrows
  <2>6. b = a + n0 /\ b - a = n0
    BY <1>1, <2>4, <2>5 DEF Grows
  <2>. QED
    BY <1>4, <2>2, <2>4, <2>5, <2>6, GrowsRewrites
<1>8. CASE c.op = "enable"
  <2>1. q = p
    BY <1>4, <1>8 DEF Rewrite
  <2>2. b = a
    BY <1>8 DEF Says
  <2>. QED
    BY <1>4, <2>1, <2>2
<1>. QED
  BY <1>2, <1>5, <1>6, <1>7, <1>8 DEF Ops

\* Writing again what was read of a stream writes the stream.
LEMMA RewrittenIs ==
  ASSUME NEW T \in SUBSET Nat, NEW n \in Nat, n = Len(calls),
         NEW At \in [ 0 .. n -> Nat ], At[0] = 0,
         \A i \in 1 .. n : /\ calls[i] \in CallType
                           /\ Says(T, calls[i], got[i], At[i - 1], At[i])
  PROVE  \E p : Rewrites(T, p, At[n]) /\ Rewritten = p.w.bytes
<1>. DEFINE S == { p \in Packers : Clean(p) }
            again(i, p) == Rewrite(calls[i], got[i], p)
            F == [ z \in (1 .. n) \X S |-> IF again(z[1], z[2]) \in S THEN again(z[1], z[2]) ELSE z[2] ]
<1>1. PICK s : s = NewPacker(NewWriter(<< >>))
  OBVIOUS
<1>2. Rewrites(T, s, 0)
  <2>1. PICK w : w = NewWriter(<< >>)
    OBVIOUS
  <2>2. /\ WriterOK(w) /\ w.bytes = << >> /\ Len(w.bytes) = 0 /\ w \in Writer(Bytes)
    BY <2>1 DEF NewWriter, WriterOK, Writer
  <2>3. s = [ w |-> w, scratch |-> {}, scratchBits |-> 0 ]
    BY <1>1, <2>1 DEF NewPacker
  <2>4. s \in Packers /\ s.w = w /\ s.scratch = {} /\ s.scratchBits = 0
    <3>1. 0 \in 0 .. W - 1 /\ {} \in SUBSET Nat
      BY Width
    <3>. QED
      BY <2>2, <2>3, <3>1 DEF Packers
  <2>5. Clean(s)
    BY <2>4 DEF Clean
  <2>6. Total(s) = 0
    <3>1. W * 0 = 0
      BY Times
    <3>. QED
      BY <2>2, <2>4, <3>1 DEF Total, Start
  <2>7. All(s) \in SUBSET Nat /\ \A e \in All(s) : e < 0
    BY <2>4, <2>5, <2>6, CleanType, PackerType
  <2>8. \A e \in Nat : ~(e < 0)
    OBVIOUS
  <2>. QED
    BY <2>5, <2>6, <2>7, <2>8 DEF Rewrites
<1>3. ASSUME NEW i \in 0 .. n - 1, NEW p, Rewrites(T, p, At[i])
      PROVE  Rewrites(T, again(i + 1, p), At[i + 1]) /\ again(i + 1, p) \in S
  <2>1. i + 1 \in 1 .. n /\ (i + 1) - 1 = i /\ i \in 0 .. n
    OBVIOUS
  <2>2. /\ calls[i + 1] \in CallType /\ At[i] \in Nat
        /\ Says(T, calls[i + 1], got[i + 1], At[i], At[i + 1])
    <3>1. Says(T, calls[i + 1], got[i + 1], At[(i + 1) - 1], At[i + 1])
      BY <2>1
    <3>. QED
      BY <2>1, <3>1
  <2>3. Rewrites(T, again(i + 1, p), At[i + 1])
    BY <1>3, <2>2, RewriteSays
  <2>4. Clean(again(i + 1, p))
    BY <2>3 DEF Rewrites
  <2>. QED
    BY <2>3, <2>4, CleanType
<1>4. s \in S /\ Rewrites(T, s, At[0])
  BY <1>2, CleanType DEF Rewrites
<1>5. F \in [ (1 .. n) \X S -> S ] /\ \A i \in 1 .. n, p \in S : again(i, p) \in S => F[<<i, p>>] = again(i, p)
  OBVIOUS
<1>. HIDE DEF S, F, again
<1>6. PICK f \in [ 0 .. n -> S ] : f[0] = s /\ \A k \in 1 .. n : f[k] = F[<<k, f[k - 1]>>]
  <2>1. Loops(n, S, s, F)
    BY <1>4, <1>5, Recursion
  <2>. QED
    BY <2>1 DEF Loops
<1>7. \A k \in 0 .. n : Rewrites(T, f[k], At[k])
  <2>. DEFINE K == { k \in 0 .. n : Rewrites(T, f[k], At[k]) }
  <2>1. 0 \in K
    BY <1>4, <1>6
  <2>2. ASSUME NEW k \in 0 .. n - 1, k \in K PROVE k + 1 \in K
    <3>1. /\ k + 1 \in 1 .. n /\ k + 1 \in 0 .. n /\ k \in 0 .. n /\ (k + 1) - 1 = k
      OBVIOUS
    <3>2. Rewrites(T, again(k + 1, f[k]), At[k + 1]) /\ again(k + 1, f[k]) \in S
      BY <1>3, <2>2
    <3>3. f[k + 1] = F[<<k + 1, f[k]>>] /\ f[k] \in S
      BY <1>6, <3>1
    <3>4. f[k + 1] = again(k + 1, f[k])
      BY <1>5, <3>1, <3>2, <3>3
    <3>. QED
      BY <3>1, <3>2, <3>4
  <2>. HIDE DEF K
  <2>3. \A k \in 0 .. n : k \in K
    BY <2>1, <2>2, Induction
  <2>. QED
    BY <2>3 DEF K
<1>8. ASSUME NEW k \in 0 .. n
      PROVE  f[k] = IF k = 0 THEN s ELSE again(k, f[k - 1])
  <2>1. CASE k = 0
    BY <1>6, <2>1
  <2>2. CASE k # 0
    <3>1. PICK j \in 0 .. n - 1 : k = j + 1 /\ k - 1 = j
      <4>1. k - 1 \in 0 .. n - 1 /\ k = (k - 1) + 1
        BY <2>2
      <4>. QED
        BY <4>1
    <3>2. k \in 1 .. n /\ j \in 0 .. n
      BY <2>2
    <3>3. again(k, f[j]) \in S
      BY <1>3, <1>7, <3>1, <3>2
    <3>4. f[k] = F[<<k, f[j]>>] /\ f[j] \in S
      BY <1>6, <3>1, <3>2
    <3>. QED
      BY <1>5, <2>2, <3>1, <3>2, <3>3, <3>4
  <2>. QED
    BY <2>1, <2>2
<1>. DEFINE Is(h) == h = [ i \in 0 .. n |-> IF i = 0 THEN s ELSE again(i, h[i - 1]) ]
            after == CHOOSE h : Is(h)
<1>9. Is(after)
  <2>1. Is(f)
    BY <1>6, <1>8
  <2>. HIDE DEF Is
  <2>. QED
    BY <2>1
<1>10. Rewritten = after[n].w.bytes
  BY <1>1 DEF Rewritten, again, Rewrite
<1>. HIDE DEF after
<1>11. \A k \in 0 .. n : Rewrites(T, after[k], At[k])
  <2>. DEFINE K == { k \in 0 .. n : Rewrites(T, after[k], At[k]) }
  <2>1. 0 \in K
    <3>1. after[0] = s
      BY <1>9
    <3>. QED
      BY <1>4, <3>1
  <2>2. ASSUME NEW k \in 0 .. n - 1, k \in K PROVE k + 1 \in K
    <3>1. /\ k + 1 \in 0 .. n /\ k + 1 # 0 /\ (k + 1) - 1 = k
      OBVIOUS
    <3>2. after[k + 1] = again(k + 1, after[k])
      BY <1>9, <3>1
    <3>3. Rewrites(T, again(k + 1, after[k]), At[k + 1])
      BY <1>3, <2>2
    <3>. QED
      BY <3>1, <3>2, <3>3
  <2>. HIDE DEF K
  <2>3. \A k \in 0 .. n : k \in K
    BY <2>1, <2>2, Induction
  <2>. QED
    BY <2>3 DEF K
<1>12. n \in 0 .. n
  OBVIOUS
<1>. QED
  BY <1>10, <1>11, <1>12

\* A packer that has written all of the bits of some bytes has those bytes.
LEMMA RewritesAll ==
  ASSUME NEW d \in Seq(Bytes), NEW p, Rewrites(Ones(d), p, W * Len(d))
  PROVE  p.w.bytes = d
<1>1. /\ Clean(p) /\ p \in Packers /\ Total(p) = W * Len(d) /\ Len(d) \in Nat
      /\ p.w.bytes \in Seq(Bytes)
  BY CleanType, PackerType DEF Rewrites
<1>2. p.scratchBits = 0 /\ Len(p.w.bytes) = Len(d)
  BY <1>1, TotalIs
<1>3. All(p) = Ones(p.w.bytes)
  BY <1>1, <1>2, Flushed
<1>4. /\ Ones(d) \in SUBSET Nat /\ Ones(p.w.bytes) \in SUBSET Nat
      /\ \A e \in Ones(d) : e < W * Len(d)
  BY <1>1, OnesBelow
<1>5. \A e \in Nat : e \in Ones(p.w.bytes) <=> e \in Ones(d)
  BY <1>3, <1>4 DEF Rewrites
<1>6. Ones(p.w.bytes) = Ones(d)
  BY <1>4, <1>5
<1>. QED
  BY <1>1, <1>2, <1>6, OnesDiffer

\* Bytes from anywhere that are read to the end of the calls without an
\* error are those that a writer of the values read writes: the padding that
\* align drops is zero, and a Boolean's byte is 0 or 1.
THEOREM OnlyWrittenIsAccepted == Spec => []AcceptsOnlyWritten
<1>1. Inv => AcceptsOnlyWritten
  <2>. SUFFICES ASSUME Inv, phase = "done", GetError(unpacker.r) = NoError
                PROVE  Rewritten = data
    BY DEF AcceptsOnlyWritten
  <2>1. PICK At : Places(At, calls, packer) /\ Follows(At, calls, packer, data, unpacker, got)
    BY DEF Inv
  <2>2. /\ calls \in Seq(CallType) /\ got \in Seq(SUBSET Nat) /\ data \in Seq(Bytes)
        /\ Clean(packer) /\ packer.scratchBits = 0 /\ Len(got) = Len(calls)
    BY WriterNow DEF Inv, TypeInv, ReaderInv
  <2>3. PICK n \in Nat : n = Len(calls)
    BY <2>2
  <2>4. /\ Healthy(unpacker, data) /\ Pos(unpacker) = At[n]
        /\ Len(data) <= Len(packer.w.bytes)
        /\ \A i \in 1 .. n : Says(Ones(data), calls[i], got[i], At[i - 1], At[i])
    BY <2>1, <2>2, <2>3, BrokenIs DEF Follows
  <2>5. /\ At \in [ 0 .. n -> Nat ] /\ At[0] = 0 /\ At[n] = W * Len(packer.w.bytes)
        /\ Len(packer.w.bytes) \in Nat
    BY <2>1, <2>2, <2>3, Flushed, CleanType, PackerType DEF Places
  <2>6. Pos(unpacker) <= W * Len(data) /\ Len(data) \in Nat
    BY <2>2, <2>4, ReadingType DEF Reading
  <2>7. Len(data) = Len(packer.w.bytes)
    BY <2>4, <2>5, <2>6, TimesOrder
  <2>8. \A i \in 1 .. n : calls[i] \in CallType
    BY <2>2, <2>3
  <2>9. Ones(data) \in SUBSET Nat
    BY <2>2, OnesBelow
  <2>10. PICK p : Rewrites(Ones(data), p, At[n]) /\ Rewritten = p.w.bytes
    BY <2>3, <2>4, <2>5, <2>8, <2>9, RewrittenIs
  <2>. QED
    BY <2>2, <2>5, <2>7, <2>10, RewritesAll
<1>. QED
  BY InvInit, InvNext, <1>1, PTL DEF Spec

-----------------------------------------------------------------------------
(***************************************************************************)
(* The stream of bits.                                                     *)
(***************************************************************************)
Digits(x, n) == [ i \in 1 .. n |-> IF i - 1 \in x THEN 1 ELSE 0 ]

Sent(p) == Digits(All(p), Total(p))

\* Written, of any packer.
WrittenOf(p) ==
  [ i \in 1 .. W * Len(p.w.bytes) + p.scratchBits |->
      LET byte == (i - 1) \div W
          bit  == (i - 1) % W
          bits == IF byte < Len(p.w.bytes) THEN Bits(p.w.bytes[byte + 1])
                                           ELSE p.scratch
      IN  IF bit \in bits THEN 1 ELSE 0 ]

LEMMA DigitsType ==
  ASSUME NEW x, NEW n \in Nat
  PROVE  /\ Digits(x, n) \in Seq({0, 1}) /\ Len(Digits(x, n)) = n
         /\ \A i \in 1 .. n : Digits(x, n)[i] = IF i - 1 \in x THEN 1 ELSE 0
<1>1. Digits(x, n) \in [ 1 .. n -> {0, 1} ]
  BY DEF Digits
<1>. QED
  BY <1>1 DEF Digits

LEMMA WrittenIs ==
  ASSUME NEW p, Clean(p)
  PROVE  WrittenOf(p) = Sent(p)
<1>1. /\ p \in Packers /\ p.w.bytes \in Seq(Bytes) /\ Len(p.w.bytes) \in Nat
      /\ p.scratchBits \in 0 .. W - 1 /\ Start(p) \in Nat
      /\ Total(p) = Start(p) + p.scratchBits /\ Total(p) \in Nat
  BY CleanType, PackerType
<1>2. PICK l \in Nat : l = Len(p.w.bytes) /\ Start(p) = W * l
  BY <1>1 DEF Start
<1>3. ASSUME NEW e \in Nat, e < Total(p), NEW j \in Nat, NEW b \in 0 .. W - 1,
             e = W * j + b
      PROVE  e \in All(p) <=> b \in IF j < l THEN Bits(p.w.bytes[j + 1]) ELSE p.scratch
  <2>1. e \in All(p) <=> e \in Ones(p.w.bytes) \/ (e >= Start(p) /\ e - Start(p) \in p.scratch)
    BY <1>1, AllAt
  <2>2. e \in Ones(p.w.bytes) <=> j < l /\ b \in Bits(p.w.bytes[j + 1])
    BY <1>1, <1>2, <1>3, OnesAt
  <2>3. j < l <=> e < Start(p)
    BY <1>2, <1>3, Before
  <2>4. CASE j < l
    BY <1>1, <2>1, <2>2, <2>3, <2>4
  <2>5. CASE ~(j < l)
    <3>1. PICK c \in 0 .. W - 1 : c = e - Start(p) /\ e = Start(p) + c
      <4>1. e - Start(p) \in 0 .. W - 1 /\ e = Start(p) + (e - Start(p))
        BY <1>1, <1>3, <2>3, <2>5, Width
      <4>. QED
        BY <4>1
    <3>2. c = b
      BY <1>2, <1>3, <3>1, Composed
    <3>. QED
      BY <1>1, <2>1, <2>2, <2>3, <2>5, <3>1, <3>2
  <2>. QED
    BY <2>4, <2>5
<1>4. ASSUME NEW i \in 1 .. Total(p)
      PROVE  (i - 1) % W \in (IF (i - 1) \div W < l THEN Bits(p.w.bytes[((i - 1) \div W) + 1])
                                                    ELSE p.scratch)
             <=> i - 1 \in All(p)
  <2>1. PICK e \in Nat : e = i - 1 /\ e < Total(p)
    <3>1. i - 1 \in Nat /\ i - 1 < Total(p)
      BY <1>1
    <3>. QED
      BY <3>1
  <2>2. PICK j \in Nat, b \in 0 .. W - 1 : e = W * j + b /\ j = e \div W /\ b = e % W
    BY Parts
  <2>3. e \in All(p) <=> b \in IF j < l THEN Bits(p.w.bytes[j + 1]) ELSE p.scratch
    BY <1>3, <2>1, <2>2
  <2>. QED
    BY <2>1, <2>2, <2>3
<1>5. W * Len(p.w.bytes) + p.scratchBits = Total(p)
  BY <1>1, <1>2
<1>. QED
  BY <1>2, <1>4, <1>5 DEF WrittenOf, Sent, Digits

LEMMA SentGrows ==
  ASSUME NEW p, Clean(p), NEW n \in Nat, NEW y \in SUBSET (0 .. n - 1), NEW q, Grows(p, q, y, n)
  PROVE  Sent(q) = Sent(p) \o Digits(y, n)
<1>1. PICK a \in Nat : a = Total(p)
  BY CleanType, PackerType
<1>2. /\ Total(q) = a + n /\ a + n \in Nat
      /\ \A e \in Nat : e < a => (e \in All(q) <=> e \in All(p))
      /\ Slice(All(q), a, n) = y
  <2>1. Grown(p, q, y, n)
    BY GrowsSays
  <2>. QED
    BY <1>1, <2>1 DEF Grown
<1>3. PICK s : s = Sent(p)
  OBVIOUS
<1>4. PICK t : t = Digits(y, n)
  OBVIOUS
<1>5. /\ s \in Seq({0, 1}) /\ Len(s) = a
      /\ \A i \in 1 .. a : s[i] = IF i - 1 \in All(p) THEN 1 ELSE 0
  BY <1>1, <1>3, DigitsType DEF Sent
<1>6. /\ t \in Seq({0, 1}) /\ Len(t) = n
      /\ \A i \in 1 .. n : t[i] = IF i - 1 \in y THEN 1 ELSE 0
  BY <1>4, DigitsType
<1>7. PICK r : r = Sent(q)
  OBVIOUS
<1>8. /\ r \in Seq({0, 1}) /\ Len(r) = a + n
      /\ \A i \in 1 .. a + n : r[i] = IF i - 1 \in All(q) THEN 1 ELSE 0
  BY <1>2, <1>7, DigitsType DEF Sent
<1>9. ASSUME NEW i \in 1 .. a + n PROVE r[i] = (s \o t)[i]
  <2>1. CASE i <= a
    <3>1. i \in 1 .. a /\ i - 1 \in Nat /\ i - 1 < a
      BY <2>1
    <3>2. r[i] = s[i]
      BY <1>2, <1>5, <1>8, <3>1
    <3>3. (s \o t)[i] = s[i]
      BY <1>5, <1>6, <3>1
    <3>. QED
      BY <3>2, <3>3
  <2>2. CASE ~(i <= a)
    <3>1. PICK k \in 1 .. n : i = a + k
      <4>1. i - a \in 1 .. n /\ i = a + (i - a)
        BY <2>2
      <4>. QED
        BY <4>1
    <3>2. k - 1 \in 0 .. n - 1 /\ i - 1 = a + (k - 1)
      BY <3>1
    <3>3. i - 1 \in All(q) <=> k - 1 \in y
      BY <1>2, <3>2 DEF Slice
    <3>4. (s \o t)[i] = t[k]
      BY <1>5, <1>6, <3>1
    <3>. QED
      BY <1>6, <1>8, <3>1, <3>3, <3>4
  <2>. QED
    BY <2>1, <2>2
<1>10. s \o t \in Seq({0, 1}) /\ Len(s \o t) = a + n
  BY <1>5, <1>6, ConcatProperties
<1>11. r = s \o t
  BY <1>8, <1>9, <1>10, SeqEqual
<1>. QED
  BY <1>3, <1>4, <1>7, <1>11

LEMMA WrittenGrows ==
  ASSUME NEW p, Clean(p), NEW n \in Nat, NEW y \in SUBSET (0 .. n - 1), NEW q, Grows(p, q, y, n)
  PROVE  WrittenOf(q) = WrittenOf(p) \o Digits(y, n)
<1>1. Clean(q)
  BY DEF Grows
<1>2. Sent(q) = Sent(p) \o Digits(y, n)
  BY SentGrows
<1>3. WrittenOf(p) = Sent(p) /\ WrittenOf(q) = Sent(q)
  BY <1>1, WrittenIs
<1>. QED
  BY <1>2, <1>3

\* Bit packing implements the stream of bits, for little-endian data: each
\* call appends its value's bits, an align pads, and no other step writes.
\* Whole bytes of big-endian data that are aligned are in another order.
THEOREM PackingImplementsTheStream ==
  ASSUME Endianness = "LittleEndian"
  PROVE  Spec => ImplementsStream
<1>0. Written = WrittenOf(packer) /\ Written' = WrittenOf(packer')
  BY DEF Written, WrittenOf
<1>1. Init => Stream!Init
  <2>. SUFFICES ASSUME Init PROVE Written = << >>
    BY DEF Stream!Init
  <2>1. Inv
    BY InvInit
  <2>2. packer.w.bytes = << >> /\ packer.scratchBits = 0
    BY DEF Init, NewPacker, NewWriter
  <2>3. Clean(packer) /\ Total(packer) = W * 0
    BY <2>1, <2>2, WriterNow, Flushed
  <2>4. Total(packer) = 0
    BY <2>3, Times
  <2>5. Sent(packer) \in Seq({0, 1}) /\ Len(Sent(packer)) = 0
    BY <2>4, DigitsType DEF Sent
  <2>6. Sent(packer) = << >>
    BY <2>5, EmptySeq
  <2>. QED
    BY <1>0, <2>3, <2>6, WrittenIs
<1>2. Inv /\ [Next]_vars => [Stream!Next]_Written
  <2>. SUFFICES ASSUME Inv, [Next]_vars PROVE Stream!Next \/ Written' = Written
    OBVIOUS
  <2>1. Clean(packer)
    BY WriterNow
  <2>2. ASSUME NEW n \in Nat, NEW y \in SUBSET (0 .. n - 1), Grows(packer, packer', y, n)
        PROVE  Written' = Written \o Digits(y, n)
    <3>1. PICK p : p = packer
      OBVIOUS
    <3>2. PICK q : q = packer'
      OBVIOUS
    <3>3. WrittenOf(q) = WrittenOf(p) \o Digits(y, n)
      BY <2>1, <2>2, <3>1, <3>2, WrittenGrows
    <3>. QED
      BY <1>0, <3>1, <3>2, <3>3
  <2>3. ASSUME NEW f \in BitFields, PutBits(f[1], f[2])
        PROVE  Stream!Next
    <3>0. PICK n \in Nat : n = f[1]
      BY FieldsAssumption
    <3>1. PICK x \in SUBSET (0 .. n - 1) : x = f[2]
      BY <3>0, FieldsAssumption
    <3>2. PICK q : q = WriteBits(packer, x, n)
      OBVIOUS
    <3>3. Grows(packer, q, x, n) /\ packer' = q
      BY <2>1, <2>3, <3>0, <3>1, <3>2, WriteBitsGrows DEF PutBits
    <3>4. Written' = Written \o Digits(x, n)
      BY <2>2, <3>3
    <3>5. Stream!Append1(f[1], f[2])
      BY <3>0, <3>1, <3>4 DEF Stream!Append1, Digits
    <3>. QED
      BY <3>5 DEF Stream!Next
  <2>4. ASSUME NEW n \in Nat, NEW x \in SUBSET (0 .. W * n - 1),
               packer' = PackBytes(packer, x, n), NEW m \in Nat, m = W * n
        PROVE  Stream!Append1(m, x)
    <3>1. PICK q : q = PackBytes(packer, x, n)
      OBVIOUS
    <3>2. Placed(x, n) = x
      BY PlacedType
    <3>3. Grows(packer, q, x, m) /\ packer' = q
      BY <2>1, <2>4, <3>1, <3>2, PackBytesGrows
    <3>4. Written' = Written \o Digits(x, m)
      BY <2>2, <2>4, <3>3
    <3>. QED
      BY <3>4 DEF Stream!Append1, Digits
  <2>5. ASSUME NEW f \in ByteFields, PutValue(f[1], f[2])
        PROVE  Stream!Next
    <3>0. PICK n \in Nat : n = f[1]
      BY FieldsAssumption
    <3>1. PICK m \in Nat : m = W * n /\ m = n * W
      BY Times
    <3>2. PICK x : x = f[2] /\ x \in SUBSET (0 .. W * n - 1)
      BY <3>0, <3>1, FieldsAssumption
    <3>3. packer' = PackBytes(packer, x, n)
      BY <2>5, <3>0, <3>2 DEF PutValue
    <3>4. Stream!Append1(m, x)
      BY <2>4, <3>1, <3>2, <3>3
    <3>5. PICK g : g = <<m, x>>
      OBVIOUS
    <3>6. g \in { <<h[1] * W, h[2]>> : h \in ByteFields } /\ g[1] = m /\ g[2] = x
      BY <3>0, <3>1, <3>2, <3>5
    <3>. QED
      BY <3>4, <3>6 DEF Stream!Next
  <2>6. ASSUME NEW x \in { {}, {0} }, PutBool(x)
        PROVE  Stream!Next
    <3>1. PICK n \in Nat, m \in Nat : n = 1 /\ m = W * n /\ m = W
      BY Times, Width
    <3>2. x \in SUBSET (0 .. W * n - 1)
      <4>1. x \in SUBSET (0 .. W - 1)
        BY Width
      <4>. QED
        BY <3>1, <4>1
    <3>3. packer' = PackBytes(packer, x, n)
      BY <2>6, <3>1 DEF PutBool
    <3>4. Stream!Append1(m, x)
      BY <2>4, <3>1, <3>2, <3>3
    <3>5. PICK g : g = <<m, x>>
      OBVIOUS
    <3>6. g \in { <<W, {}>>, <<W, {0}>> } /\ g[1] = m /\ g[2] = x
      BY <3>1, <3>5
    <3>. QED
      BY <3>4, <3>6 DEF Stream!Next
  <2>7. ASSUME packer' = AlignWrite(packer)
        PROVE  Stream!Next
    <3>1. PICK q : q = AlignWrite(packer)
      OBVIOUS
    <3>2. PICK sb \in 0 .. W - 1 : sb = packer.scratchBits
      BY <2>1, CleanType, PackerType
    <3>3. PICK n : n = (W - sb) % W
      OBVIOUS
    <3>4. n \in Nat
      <4>1. W - sb \in Nat
        BY Width
      <4>. QED
        BY <3>3, <4>1, Parts, Width
    <3>5. Grows(packer, q, {}, n) /\ packer' = q
      BY <2>1, <2>7, <3>1, <3>2, <3>3, AlignWriteGrows
    <3>6. {} \in SUBSET (0 .. n - 1)
      OBVIOUS
    <3>7. Written' = Written \o Digits({}, n)
      BY <2>2, <3>4, <3>5, <3>6
    <3>8. Digits({}, n) = [ i \in 1 .. n |-> 0 ]
      BY DEF Digits
    <3>9. Len(Written) % W = sb
      <4>1. Total(packer) \in Nat /\ Total(packer) % W = sb
        BY <2>1, <3>2, CleanType, PackerType, TotalIs
      <4>2. Len(Sent(packer)) = Total(packer)
        BY <4>1, DigitsType DEF Sent
      <4>. QED
        BY <1>0, <2>1, <4>1, <4>2, WrittenIs
    <3>10. Stream!Pad
      BY <3>3, <3>7, <3>8, <3>9 DEF Stream!Pad
    <3>. QED
      BY <3>10 DEF Stream!Next
  <2>8. ASSUME packer' = packer
        PROVE  Written' = Written
    BY <1>0, <2>8
  <2>9. CASE EnableWrite
    <3>1. packer.scratchBits = 0 /\ packer' = NewPacker(packer.w)
      BY <2>9, WriterNow DEF EnableWrite
    <3>2. PICK c : c = [ op |-> "enable", n |-> 0, x |-> {} ]
      OBVIOUS
    <3>3. packer' = packer
      BY <2>1, <3>1, <3>2, EnableContinues
    <3>. QED
      BY <2>8, <3>3
  <2>10. CASE DisableWrite \/ Align
    BY <2>7, <2>10 DEF DisableWrite, Align
  <2>11. CASE Deliver \/ Finish
    BY <2>8, <2>11 DEF Deliver, Finish, writerVars
  <2>12. CASE EnableRead \/ DisableRead \/ AlignInput \/ GetBits \/ GetValue \/ GetBool
    <3>1. \A op : Repeat(op) => packer' = packer
      BY DEF Repeat, writerVars
    <3>. QED
      BY <2>8, <2>12, <3>1 DEF EnableRead, DisableRead, AlignInput, GetBits, GetValue, GetBool
  <2>13. CASE UNCHANGED vars
    BY <2>8, <2>13 DEF vars
  <2>. QED
    BY <2>3, <2>5, <2>6, <2>9, <2>10, <2>11, <2>12, <2>13 DEF Next
<1>. QED
  BY InvInit, InvNext, <1>1, <1>2, PTL DEF Spec, ImplementsStream, Stream!Spec

=============================================================================
