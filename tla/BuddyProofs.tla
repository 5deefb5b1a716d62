----------------------------- MODULE BuddyProofs -----------------------------
(***************************************************************************)
(* The kernel heap never hands out a unit of memory twice, for every page   *)
(* size, any regions, and whatever is requested of it.                      *)
(***************************************************************************)
EXTENDS Buddy, SequenceTheorems, WellFoundedInduction, TLAPS

(* Where something holds for a number, there is a lowest one.               *)
Less == {pair \in Nat \X Nat : pair[1] < pair[2]}

(* The well-foundedness of the naturals, as a lowest element.               *)
LEMMA LowestExists ==
    ASSUME NEW T \in SUBSET Nat, T # {}
    PROVE  \E lowest \in T : \A n \in T : lowest <= n
  <1>1. IsWellFoundedOn(Less, Nat)
    BY NatLessThanWellFounded DEF OpToRel, Less
  <1>2. PICK lowest \in T : \A n \in T : ~(<<n, lowest>> \in Less)
    BY <1>1, WFMin
  <1>3. \A n \in T : ~(n < lowest)
    BY <1>2 DEF Less
  <1> QED
    BY <1>3

(* Of some orders, there is a highest one.                                  *)
LEMMA HighestExists ==
    ASSUME NEW T \in SUBSET Orders, T # {}
    PROVE  \E highest \in T : \A n \in T : n <= highest
  <1> DEFINE down == {MAX_ORDER - n : n \in T}
  <1>1. MAX_ORDER \in Nat /\ \A n \in T : n \in Nat /\ n <= MAX_ORDER
    BY PageAssumption DEF Orders
  <1>2. down \in SUBSET Nat /\ down # {}
    BY <1>1
  <1>3. PICK lowest \in down : \A m \in down : lowest <= m
    BY <1>2, LowestExists
  <1>4. PICK h \in T : lowest = MAX_ORDER - h
    OBVIOUS
  <1>5. ASSUME NEW n \in T PROVE n <= h
    <2>1. MAX_ORDER - n \in down
      OBVIOUS
    <2>2. lowest <= MAX_ORDER - n
      BY <1>3, <2>1
    <2> QED
      BY <1>1, <1>4, <2>2
  <1> QED
    BY <1>5

(* Max and Min pick them.                                                   *)
LEMMA MaxIs ==
    ASSUME NEW T \in SUBSET Orders, T # {}
    PROVE  Max(T) \in T /\ \A n \in T : n <= Max(T)
  <1>1. PICK h \in T : \A n \in T : n <= h
    BY HighestExists
  <1>2. h \in T /\ \A n \in T : h >= n
    BY <1>1, PageAssumption DEF Orders
  <1>3. Max(T) \in T /\ \A n \in T : Max(T) >= n
    BY <1>2 DEF Max
  <1> QED
    BY <1>3, PageAssumption DEF Orders

(* Min of a set of naturals is its lowest element.                          *)
LEMMA MinIs ==
    ASSUME NEW T \in SUBSET Nat, T # {}
    PROVE  Min(T) \in T /\ \A n \in T : Min(T) <= n
BY LowestExists DEF Min

-----------------------------------------------------------------------------
(* Division.                                                                *)
LEMMA DivMod ==
    ASSUME NEW x \in Nat, NEW s \in Nat \ {0}
    PROVE  \E q \in Nat, r \in 0 .. s - 1 : x \div s = q /\ x % s = r /\ x = s * q + r
  <1>1. PICK q \in Int : q = x \div s
    OBVIOUS
  <1>2. PICK r \in Int : r = x % s
    OBVIOUS
  <1>3. x = s * q + r
    BY <1>1, <1>2
  <1>4. q >= 0
    BY <1>1
  <1>5. r \in 0 .. s - 1
    BY <1>2
  <1>6. q \in Nat
    BY <1>4
  <1>7. x \div s = q /\ x % s = r
    BY <1>1, <1>2
  <1> QED
    BY <1>3, <1>5, <1>6, <1>7, Zenon

(* Quotient and remainder are determined.                                   *)
LEMMA DivUnique ==
    ASSUME NEW s \in Nat \ {0}, NEW q \in Nat, NEW r \in 0 .. s - 1
    PROVE  (s * q + r) \div s = q /\ (s * q + r) % s = r
  <1>1. s * q + r \in Nat
    OBVIOUS
  <1>2. PICK p \in Nat, t \in 0 .. s - 1 : (s * q + r) \div s = p /\ (s * q + r) % s = t /\ s * q + r = s * p + t
    BY <1>1, DivMod
  <1>3. ~(p < q)
    <2> SUFFICES ASSUME p + 1 <= q PROVE FALSE
      OBVIOUS
    <2>1. s * (p + 1) <= s * q
      OBVIOUS
    <2>2. s * (p + 1) = s * p + s
      OBVIOUS
    <2> QED
      BY <1>2, <2>1, <2>2
  <1>4. ~(q < p)
    <2> SUFFICES ASSUME q + 1 <= p PROVE FALSE
      OBVIOUS
    <2>1. s * (q + 1) <= s * p
      OBVIOUS
    <2>2. s * (q + 1) = s * q + s
      OBVIOUS
    <2> QED
      BY <1>2, <2>1, <2>2
  <1>5. p = q
    BY <1>3, <1>4
  <1> QED
    BY <1>2, <1>5

(* What it means to be aligned.                                             *)
LEMMA Multiples ==
    ASSUME NEW x \in Nat, NEW s \in Nat \ {0}
    PROVE  x % s = 0 <=> \E q \in Nat : x = s * q
  <1>1. ASSUME NEW q \in Nat, x = s * q PROVE x % s = 0
    <2>1. (s * q + 0) % s = 0
      BY DivUnique
    <2>2. s * q + 0 = x
      BY <1>1
    <2> QED
      BY <2>1, <2>2
  <1>2. ASSUME x % s = 0 PROVE \E q \in Nat : x = s * q
    <2>1. PICK q \in Nat, r \in 0 .. s - 1 : x \div s = q /\ x % s = r /\ x = s * q + r
      BY DivMod
    <2>2. r = 0
      BY <1>2, <2>1
    <2> QED
      BY <2>1, <2>2
  <1> QED
    BY <1>1, <1>2

(* Sums and differences of aligned numbers are aligned.                     *)
LEMMA MultipleSum ==
    ASSUME NEW x \in Nat, NEW y \in Nat, NEW s \in Nat \ {0}, x % s = 0, y % s = 0
    PROVE  (x + y) % s = 0 /\ (y <= x => (x - y) % s = 0)
  <1>1. PICK q \in Nat : x = s * q
    BY Multiples
  <1>2. PICK p \in Nat : y = s * p
    BY Multiples
  <1>3. PICK v \in Nat : v = x + y
    OBVIOUS
  <1>4. (x + y) % s = 0
    <2>1. PICK d \in Nat : d = q + p
      OBVIOUS
    <2>2. v = s * d
      BY <1>1, <1>2, <1>3, <2>1
    <2>3. v % s = 0
      BY <2>2, Multiples
    <2> QED
      BY <1>3, <2>3
  <1>5. ASSUME y <= x PROVE (x - y) % s = 0
    <2>1. p <= q
      <3> SUFFICES ASSUME q + 1 <= p PROVE FALSE
        OBVIOUS
      <3>1. s * (q + 1) <= s * p
        OBVIOUS
      <3>2. s * (q + 1) = s * q + s
        OBVIOUS
      <3> QED
        BY <1>1, <1>2, <1>5, <3>1, <3>2
    <2>2. PICK d \in Nat : d = q - p
      BY <2>1
    <2>3. PICK w \in Nat : w = x - y
      BY <1>5
    <2>4. w = s * d
      BY <1>1, <1>2, <2>2, <2>3
    <2>5. w % s = 0
      BY <2>4, Multiples
    <2> QED
      BY <2>3, <2>5
  <1> QED
    BY <1>4, <1>5

(* A multiple is at least its divisor, and of whatever that is a multiple.  *)
LEMMA AtLeast ==
    ASSUME NEW d \in Nat \ {0}, NEW s \in Nat \ {0}, d % s = 0
    PROVE  s <= d
  <1>1. PICK q \in Nat : d = s * q
    BY Multiples
  <1>2. q # 0
    BY <1>1
  <1>3. q >= 1
    BY <1>2
  <1>4. s * 1 <= s * q
    BY <1>3
  <1> QED
    BY <1>1, <1>4

(* Aligned to a size, aligned to what divides it.                           *)
LEMMA MultipleOf ==
    ASSUME NEW x \in Nat, NEW s \in Nat \ {0}, NEW a \in Nat \ {0}, x % s = 0, s % a = 0
    PROVE  x % a = 0
  <1>1. PICK q \in Nat : x = s * q
    BY Multiples
  <1>2. PICK r \in Nat : s = a * r
    BY Multiples
  <1>3. PICK t \in Nat : t = r * q
    OBVIOUS
  <1>4. x = a * t
    <2>1. (a * r) * q = a * (r * q)
      OBVIOUS
    <2> QED
      BY <1>1, <1>2, <1>3, <2>1
  <1> QED
    BY <1>4, Multiples

(* The aligned block of size s around u: align_down.                       *)
LEMMA AlignDown ==
    ASSUME NEW u \in Nat, NEW s \in Nat \ {0}, NEW b, b = (u \div s) * s
    PROVE  b \in Nat /\ b % s = 0 /\ b <= u /\ u < b + s
  <1>1. PICK q \in Nat, r \in 0 .. s - 1 : u \div s = q /\ u % s = r /\ u = s * q + r
    BY DivMod
  <1>2. b = s * q /\ b \in Nat
    BY <1>1
  <1> QED
    BY <1>1, <1>2, Multiples

(* The aligned block around a unit is the one it lies in.                   *)
LEMMA AroundIs ==
    ASSUME NEW u \in Nat, NEW s \in Nat \ {0}, NEW b \in Nat, b % s = 0, b <= u, u < b + s
    PROVE  (u \div s) * s = b
  <1>1. PICK q \in Nat : b = s * q
    BY Multiples
  <1>2. u - b \in 0 .. s - 1 /\ u = s * q + (u - b)
    BY <1>1
  <1>3. u \div s = q
    BY <1>2, DivUnique
  <1> QED
    BY <1>1, <1>3

-----------------------------------------------------------------------------
(* The recursion of the block sizes: for every n there is a table up to n.  *)
Table(n, g) == g \in [0 .. n -> Nat \ {0}] /\ g[0] = PAGE /\ \A i \in 1 .. n : g[i] = 2 * g[i - 1]

(* Doubling from a page gives a table of sizes, however long.               *)
LEMMA TablesExist == ASSUME NEW n \in Nat PROVE \E g : Table(n, g)
  <1> DEFINE missing == {m \in Nat : ~(\E g : Table(m, g))}
  <1>1. SUFFICES ASSUME missing # {} PROVE FALSE
    OBVIOUS
  <1>2. missing \in SUBSET Nat
    OBVIOUS
  <1>3. PICK m \in missing : \A k \in missing : m <= k
    BY <1>1, <1>2, LowestExists
  <1>4. CASE m = 0
    <2>1. Table(0, [i \in 0 .. 0 |-> PAGE])
      BY PageAssumption DEF Table
    <2> QED
      BY <1>4, <2>1
  <1>5. CASE m # 0
    <2>1. m - 1 \in Nat /\ m - 1 \notin missing
      BY <1>3, <1>5
    <2>2. PICK g : Table(m - 1, g)
      BY <2>1
    <2> DEFINE f == [i \in 0 .. m |-> IF i = m THEN 2 * g[m - 1] ELSE g[i]]
    <2>3. g \in [0 .. m - 1 -> Nat \ {0}] /\ g[0] = PAGE /\ \A i \in 1 .. m - 1 : g[i] = 2 * g[i - 1]
      BY <2>2 DEF Table
    <2>4. \A i \in 0 .. m - 1 : f[i] = g[i]
      BY <2>1
    <2>5. f[m] = 2 * f[m - 1] /\ f[0] = PAGE
      BY <1>5, <2>1, <2>3
    <2>6. f \in [0 .. m -> Nat \ {0}]
      BY <2>1, <2>3
    <2> HIDE DEF f
    <2>7. ASSUME NEW i \in 1 .. m PROVE f[i] = 2 * f[i - 1]
      <3>1. CASE i = m
        BY <2>5, <3>1
      <3>2. CASE i # m
        <4>1. i \in 0 .. m - 1 /\ i - 1 \in 0 .. m - 1 /\ i \in 1 .. m - 1
          BY <3>2
        <4> QED
          BY <2>3, <2>4, <4>1
      <3> QED
        BY <3>1, <3>2
    <2>8. Table(m, f)
      BY <2>5, <2>6, <2>7 DEF Table
    <2> QED
      BY <2>8
  <1> QED
    BY <1>4, <1>5

(* The block sizes double from one page.                                    *)
LEMMA Sizes_ ==
    /\ \A o \in Orders : BlockSizes[o] \in Nat \ {0}
    /\ BlockSizes[0] = PAGE
    /\ \A o \in Orders : o + 1 \in Orders => BlockSizes[o + 1] = 2 * BlockSizes[o]
  <1> DEFINE Defines(f) == f = [order \in Orders |-> IF order = 0 THEN PAGE ELSE 2 * f[order - 1]]
  <1>1. PICK g : Table(MAX_ORDER, g)
    BY PageAssumption, TablesExist
  <1>2. g \in [Orders -> Nat \ {0}] /\ g[0] = PAGE /\ \A i \in 1 .. MAX_ORDER : g[i] = 2 * g[i - 1]
    BY <1>1 DEF Table, Orders
  <1>3. g = [order \in Orders |-> IF order = 0 THEN PAGE ELSE 2 * g[order - 1]]
    <2>1. \A o \in Orders : g[o] = IF o = 0 THEN PAGE ELSE 2 * g[o - 1]
      BY <1>2, PageAssumption DEF Orders
    <2> QED
      BY <1>2, <2>1
  <1>4. BlockSizes = CHOOSE f : Defines(f)
    BY DEF BlockSizes
  <1>5. Defines(BlockSizes)
    <2>1. Defines(g)
      BY <1>3
    <2> HIDE DEF Defines
    <2> QED
      BY <1>4, <2>1
  <1>6. \A o \in Orders : BlockSizes[o] = IF o = 0 THEN PAGE ELSE 2 * BlockSizes[o - 1]
    BY <1>5
  <1> HIDE DEF Defines
  <1>7. 0 \in Orders /\ BlockSizes[0] = PAGE
    BY <1>6, PageAssumption DEF Orders
  <1>8. \A o \in Orders : o + 1 \in Orders => BlockSizes[o + 1] = 2 * BlockSizes[o]
    BY <1>6, PageAssumption DEF Orders
  <1>9. \A o \in Orders : BlockSizes[o] \in Nat \ {0}
    <2> DEFINE bad == {o \in Orders : BlockSizes[o] \notin Nat \ {0}}
    <2>1. SUFFICES ASSUME bad # {} PROVE FALSE
      OBVIOUS
    <2>2. bad \in SUBSET Nat
      BY PageAssumption DEF Orders
    <2>3. PICK m \in bad : \A k \in bad : m <= k
      BY <2>1, <2>2, LowestExists
    <2>4. m # 0
      BY <1>7, PageAssumption
    <2>5. m - 1 \in Orders /\ m - 1 \notin bad
      BY <2>2, <2>3, <2>4, PageAssumption DEF Orders
    <2>6. BlockSizes[m] = 2 * BlockSizes[m - 1] /\ BlockSizes[m - 1] \in Nat \ {0}
      BY <1>6, <2>4, <2>5
    <2> QED
      BY <2>6
  <1> QED
    BY <1>7, <1>8, <1>9

-----------------------------------------------------------------------------
(* The aligned block of an order around a unit.                             *)
LEMMA Orders_ == Orders \subseteq Nat /\ 0 \in Orders /\ \A o \in Orders : \A i \in 0 .. o : i \in Orders
  BY PageAssumption DEF Orders

(* The block of an order around a unit is aligned and holds it.             *)
LEMMA AroundUnit ==
    ASSUME NEW u \in Nat, NEW o \in Orders
    PROVE  /\ MergedBase(u, o) \in Nat /\ MergedBase(u, o) % BlockSizes[o] = 0
           /\ MergedBase(u, o) <= u /\ u < MergedBase(u, o) + BlockSizes[o]
  <1>1. BlockSizes[o] \in Nat \ {0}
    BY Sizes_
  <1>2. MergedBase(u, o) = (u \div BlockSizes[o]) * BlockSizes[o]
    BY DEF MergedBase, align_down, block_size_for_order
  <1> QED
    BY <1>1, <1>2, AlignDown

(* A unit is in an aligned block if that is the block around it.            *)
LEMMA InBlock ==
    ASSUME NEW b \in Nat, NEW o \in Orders, b % BlockSizes[o] = 0, NEW u
    PROVE  u \in Span(b, BlockSizes[o]) <=> u \in Nat /\ MergedBase(u, o) = b
  <1>1. BlockSizes[o] \in Nat \ {0}
    BY Sizes_
  <1>2. u \in Span(b, BlockSizes[o]) <=> u \in Nat /\ b <= u /\ u < b + BlockSizes[o]
    BY <1>1 DEF Span
  <1>3. ASSUME u \in Nat, b <= u, u < b + BlockSizes[o] PROVE MergedBase(u, o) = b
    BY <1>1, <1>3, AroundIs DEF MergedBase, align_down, block_size_for_order
  <1>4. ASSUME u \in Nat, MergedBase(u, o) = b PROVE b <= u /\ u < b + BlockSizes[o]
    BY <1>4, AroundUnit
  <1> QED
    BY <1>2, <1>3, <1>4

(* The block of the next order is the block and its buddy.                  *)
Even(m, o) == (m \div BlockSizes[o]) % 2 = 0
(* The block one order up is this one and its buddy.                        *)
LEMMA UpOne ==
    ASSUME NEW u \in Nat, NEW o \in Orders, o + 1 \in Orders, NEW m, m = MergedBase(u, o)
    PROVE  /\ Even(m, o) => MergedBase(u, o + 1) = m /\ BuddyOf(m, o) = m + BlockSizes[o]
           /\ ~Even(m, o) => /\ BlockSizes[o] <= m /\ MergedBase(u, o + 1) = m - BlockSizes[o]
                             /\ BuddyOf(m, o) = m - BlockSizes[o]
  <1>1. PICK s \in Nat \ {0} : s = BlockSizes[o]
    BY Sizes_
  <1>2. PICK t \in Nat \ {0} : t = BlockSizes[o + 1] /\ t = 2 * s
    BY <1>1, Sizes_
  <1>3. PICK q \in Nat, r \in 0 .. s - 1 : u \div s = q /\ u % s = r /\ u = s * q + r
    BY DivMod
  <1>4. m = q * s
    BY <1>1, <1>3 DEF MergedBase, align_down, block_size_for_order
  <1>5. m \div s = q
    <2>1. (s * q + 0) \div s = q
      BY DivUnique
    <2>2. s * q + 0 = m
      BY <1>4
    <2> QED
      BY <2>1, <2>2
  <1>6. PICK h \in Nat, e \in 0 .. 1 : q \div 2 = h /\ q % 2 = e /\ q = 2 * h + e
    BY DivMod
  <1>7. PICK k \in Nat : k = e * s + r
    OBVIOUS
  <1>8. k \in 0 .. t - 1
    <2>1. e = 0 \/ e = 1
      OBVIOUS
    <2> QED
      BY <1>2, <1>7, <2>1
  <1>9. u = t * h + k
    <2>1. e = 0 \/ e = 1
      OBVIOUS
    <2>2. s * (2 * h + e) = (2 * s) * h + e * s
      BY <2>1
    <2> QED
      BY <1>2, <1>3, <1>6, <1>7, <2>2
  <1>10. u \div t = h
    BY <1>8, <1>9, DivUnique
  <1>11. MergedBase(u, o + 1) = h * t
    BY <1>2, <1>10 DEF MergedBase, align_down, block_size_for_order
  <1>12. Even(m, o) <=> e = 0
    BY <1>1, <1>5, <1>6 DEF Even
  <1>13. BuddyOf(m, o) = IF e = 0 THEN m + s ELSE m - s
    BY <1>1, <1>12 DEF BuddyOf, block_size_for_order, Even
  <1>14. ASSUME e = 0 PROVE m = h * t
    <2>1. q = 2 * h
      BY <1>6, <1>14
    <2>2. (2 * h) * s = h * (2 * s)
      OBVIOUS
    <2> QED
      BY <1>2, <1>4, <2>1, <2>2
  <1>15. ASSUME e = 1 PROVE m = h * t + s
    <2>1. q = 2 * h + 1
      BY <1>6, <1>15
    <2>2. (2 * h + 1) * s = h * (2 * s) + s
      OBVIOUS
    <2> QED
      BY <1>2, <1>4, <2>1, <2>2
  <1>16. h * t \in Nat
    OBVIOUS
  <1>17. CASE e = 0
    BY <1>1, <1>11, <1>12, <1>13, <1>14, <1>17
  <1>18. CASE e = 1
    <2>1. s <= m /\ m - s = h * t
      BY <1>15, <1>16, <1>18
    <2> QED
      BY <1>1, <1>11, <1>12, <1>13, <1>18, <2>1
  <1> QED
    BY <1>17, <1>18

(* Units in the same block of an order are in the same block of each higher *)
(* order.                                                                   *)
LEMMA SameAbove ==
    ASSUME NEW u \in Nat, NEW v \in Nat, NEW i \in Orders, NEW j \in Orders, i <= j,
           MergedBase(u, i) = MergedBase(v, i)
    PROVE  MergedBase(u, j) = MergedBase(v, j)
  <1> DEFINE apart == {k \in Orders : i <= k /\ MergedBase(u, k) # MergedBase(v, k)}
  <1>1. SUFFICES ASSUME apart # {} PROVE FALSE
    OBVIOUS
  <1>2. apart \in SUBSET Nat
    BY Orders_
  <1>3. PICK k \in apart : \A l \in apart : k <= l
    BY <1>1, <1>2, LowestExists
  <1>4. k # i /\ k \in Orders /\ i <= k /\ i \in Nat /\ k \in Nat
    BY <1>2, Orders_
  <1>5. PICK o \in Orders : o + 1 = k
    <2>1. k - 1 \in 0 .. k
      BY <1>4
    <2>2. k - 1 \in Orders
      BY <1>4, <2>1, Orders_
    <2> QED
      BY <1>4, <2>2
  <1>6. o \notin apart /\ i <= o
    BY <1>3, <1>4, <1>5, Orders_
  <1>7. o + 1 \in Orders /\ MergedBase(u, o) = MergedBase(v, o)
    BY <1>4, <1>5, <1>6
  <1>8. ASSUME NEW w \in Nat
        PROVE  MergedBase(w, o + 1) = IF Even(MergedBase(w, o), o) THEN MergedBase(w, o) ELSE MergedBase(w, o) - BlockSizes[o]
    BY <1>7, UpOne
  <1>9. MergedBase(u, o + 1) = MergedBase(v, o + 1)
    BY <1>7, <1>8
  <1> QED
    BY <1>5, <1>9

(* Aligned blocks are nested or apart.                                      *)
LEMMA Nested ==
    ASSUME NEW i \in Orders, NEW j \in Orders, i <= j, NEW a \in Nat, NEW b \in Nat,
           a % BlockSizes[i] = 0, b % BlockSizes[j] = 0,
           NEW u, u \in Span(a, BlockSizes[i]), u \in Span(b, BlockSizes[j])
    PROVE  Span(a, BlockSizes[i]) \subseteq Span(b, BlockSizes[j])
  <1>1. u \in Nat /\ MergedBase(u, i) = a /\ MergedBase(u, j) = b
    BY InBlock
  <1> SUFFICES ASSUME NEW v \in Span(a, BlockSizes[i]) PROVE v \in Span(b, BlockSizes[j])
    OBVIOUS
  <1>2. v \in Nat /\ MergedBase(v, i) = a
    BY InBlock
  <1>3. MergedBase(v, j) = b
    BY <1>1, <1>2, SameAbove
  <1> QED
    BY <1>2, <1>3, InBlock

(* A block that is aligned to its size is aligned to every smaller one, and *)
(* is the block of its own order around its base.                           *)
LEMMA AlignedBelow ==
    ASSUME NEW i \in Orders, NEW j \in Orders, i <= j, NEW b \in Nat, b % BlockSizes[j] = 0
    PROVE  b % BlockSizes[i] = 0 /\ MergedBase(b, i) = b
  <1>1. BlockSizes[j] \in Nat \ {0} /\ BlockSizes[i] \in Nat \ {0}
    BY Sizes_
  <1>2. b \in Span(b, BlockSizes[j])
    BY <1>1 DEF Span
  <1>3. MergedBase(b, j) = b
    BY <1>2, InBlock
  <1>4. PICK v \in Nat : v = MergedBase(b, i) /\ v <= b /\ v % BlockSizes[i] = 0 /\ b < v + BlockSizes[i]
    BY AroundUnit
  <1>5. v \in Span(v, BlockSizes[i])
    BY <1>1, <1>4 DEF Span
  <1>6. MergedBase(v, i) = v
    BY <1>4, <1>5, InBlock
  <1>7. MergedBase(v, j) = b
    BY <1>3, <1>4, <1>6, SameAbove
  <1>8. b <= v
    BY <1>7, AroundUnit
  <1> QED
    BY <1>4, <1>8

-----------------------------------------------------------------------------
(* A buddy has the size and the alignment of its block, is apart from it,   *)
(* and makes up the block of the next order with it.                        *)
Buddy_(b, o) == BuddyOf(MergedBase(b, o), o)
(* A block and its buddy are apart and make up the block above.             *)
LEMMA BuddyBlock ==
    ASSUME NEW b \in Nat, NEW o \in Orders, o + 1 \in Orders
    PROVE  /\ Buddy_(b, o) \in Nat /\ Buddy_(b, o) % BlockSizes[o] = 0
           /\ \A u : u \in Span(MergedBase(b, o + 1), BlockSizes[o + 1])
                       <=> u \in Span(MergedBase(b, o), BlockSizes[o]) \/ u \in Span(Buddy_(b, o), BlockSizes[o])
           /\ \A u : ~(u \in Span(MergedBase(b, o), BlockSizes[o]) /\ u \in Span(Buddy_(b, o), BlockSizes[o]))
  <1>1. PICK s \in Nat \ {0} : s = BlockSizes[o]
    BY Sizes_
  <1>2. BlockSizes[o + 1] = 2 * s
    BY <1>1, Sizes_
  <1>3. PICK m \in Nat : m = MergedBase(b, o) /\ m % s = 0
    BY <1>1, AroundUnit
  <1>4. s % s = 0
    BY Multiples, s * 1 = s
  <1>5. \/ MergedBase(b, o + 1) = m /\ Buddy_(b, o) = m + s
        \/ s <= m /\ MergedBase(b, o + 1) = m - s /\ Buddy_(b, o) = m - s
    BY <1>1, <1>3, UpOne DEF Buddy_
  <1>6. PICK up : up = MergedBase(b, o + 1)
    OBVIOUS
  <1>7. PICK buddy : buddy = Buddy_(b, o)
    OBVIOUS
  <1>8. (m + s) % s = 0 /\ (s <= m => (m - s) % s = 0)
    BY <1>3, <1>4, MultipleSum
  <1>9. (up = m /\ buddy = m + s) \/ (s <= m /\ up = m - s /\ buddy = m - s)
    BY <1>5, <1>6, <1>7
  <1>10. buddy \in Nat
    BY <1>9
  <1>11. buddy % s = 0
    BY <1>8, <1>9
  <1>12. \A u : u \in Span(up, 2 * s) <=> u \in Span(m, s) \/ u \in Span(buddy, s)
    BY <1>9 DEF Span
  <1>13. \A u : ~(u \in Span(m, s) /\ u \in Span(buddy, s))
    BY <1>9 DEF Span
  <1> QED
    BY <1>1, <1>2, <1>3, <1>6, <1>7, <1>10, <1>11, <1>12, <1>13

(* The buddies met from an order up to another, and the merged block.       *)
MergesTo(b, from, k) ==
    /\ MergedBase(b, k) \in Nat /\ MergedBase(b, k) % BlockSizes[k] = 0
    /\ \A o \in from .. k - 1 : o \in Orders /\ Buddy_(b, o) \in Nat /\ Buddy_(b, o) % BlockSizes[o] = 0
    /\ \A u : u \in Span(MergedBase(b, k), BlockSizes[k])
                <=> \/ u \in Span(b, BlockSizes[from])
                    \/ \E o \in from .. k - 1 : u \in Span(Buddy_(b, o), BlockSizes[o])
    /\ \A o \in from .. k - 1 : Span(Buddy_(b, o), BlockSizes[o]) \cap Span(b, BlockSizes[from]) = {}
    /\ \A o, l \in from .. k - 1 :
          l # o => Span(Buddy_(b, o), BlockSizes[o]) \cap Span(Buddy_(b, l), BlockSizes[l]) = {}

(* Merging with every buddy from one order to another covers exactly those  *)
(* blocks.                                                                  *)
LEMMA Chain ==
    ASSUME NEW b \in Nat, NEW from \in Orders, NEW k \in Orders, from <= k, b % BlockSizes[from] = 0
    PROVE  MergesTo(b, from, k)
  <1> DEFINE M(o) == Span(MergedBase(b, o), BlockSizes[o])
             B(o) == Span(Buddy_(b, o), BlockSizes[o])
  <1>1. from \in Nat /\ k \in Nat /\ \A o \in from .. k : o \in Orders /\ o \in Nat
    BY Orders_
  <1>2. \A o \in from .. k - 1 : o \in from .. k /\ o + 1 \in from .. k /\ o \in Orders /\ o + 1 \in Orders
    BY <1>1
  <1>3. MergedBase(b, from) = b
    BY <1>1, AlignedBelow
  <1>4. \A o \in Orders : MergedBase(b, o) \in Nat /\ MergedBase(b, o) % BlockSizes[o] = 0
    BY AroundUnit
  <1>5. ASSUME NEW o \in from .. k - 1
        PROVE  /\ Buddy_(b, o) \in Nat /\ Buddy_(b, o) % BlockSizes[o] = 0
               /\ \A u : u \in M(o + 1) <=> u \in M(o) \/ u \in B(o)
               /\ \A u : ~(u \in M(o) /\ u \in B(o))
    BY <1>2, BuddyBlock
  <1>6. ASSUME NEW i \in from .. k, NEW j \in from .. k, i <= j PROVE M(i) \subseteq M(j)
    <2>1. i \in Orders /\ j \in Orders
      BY <1>1
    <2>2. b \in M(i) /\ b \in M(j)
      BY <1>4, <2>1, InBlock
    <2> QED
      BY <1>4, <1>6, <2>1, <2>2, Nested
  <1> HIDE DEF M, B
  <1>7. \A o \in from .. k - 1 : B(o) \subseteq M(o + 1)
    BY <1>5
  <1>8. ASSUME NEW u, u \in M(k) PROVE u \in M(from) \/ \E o \in from .. k - 1 : u \in B(o)
    <2> DEFINE has == {j \in from .. k : u \in M(j)}
    <2>1. has \in SUBSET Nat /\ has # {}
      BY <1>1, <1>8
    <2>2. PICK j \in has : \A l \in has : j <= l
      BY <2>1, LowestExists
    <2>3. CASE j = from
      BY <2>2, <2>3
    <2>4. CASE j # from
      <3>1. PICK o \in from .. k - 1 : o + 1 = j
        <4>1. j - 1 \in from .. k - 1
          BY <1>1, <2>2, <2>4
        <4> QED
          BY <1>1, <4>1
      <3>2. u \notin M(o)
        BY <1>1, <1>2, <2>2, <3>1
      <3>3. u \in M(o + 1)
        BY <2>2, <3>1
      <3> QED
        BY <1>5, <3>2, <3>3
    <2> QED
      BY <2>3, <2>4
  <1>9. ASSUME NEW u, NEW o \in from .. k - 1, u \in B(o) PROVE u \in M(k)
    <2>1. M(o + 1) \subseteq M(k)
      BY <1>1, <1>2, <1>6
    <2> QED
      BY <1>7, <1>9, <2>1
  <1>10. M(from) \subseteq M(k)
    BY <1>1, <1>6
  <1>11. ASSUME NEW u, NEW o \in from .. k - 1, u \in B(o) PROVE u \notin M(from)
    <2>1. M(from) \subseteq M(o)
      BY <1>1, <1>2, <1>6
    <2> QED
      BY <1>5, <1>11, <2>1
  <1>12. ASSUME NEW o \in from .. k - 1, NEW l \in from .. k - 1, o < l PROVE \A u : ~(u \in B(o) /\ u \in B(l))
    <2>1. M(o + 1) \subseteq M(l)
      BY <1>1, <1>2, <1>6, <1>12
    <2> QED
      BY <1>5, <1>7, <2>1
  <1>13. ASSUME NEW u, NEW o \in from .. k - 1, NEW l \in from .. k - 1, l # o, u \in B(o) PROVE u \notin B(l)
    <2>1. o < l \/ l < o
      BY <1>1, <1>13
    <2> QED
      BY <1>12, <1>13, <2>1
  <1>14. M(from) = Span(b, BlockSizes[from])
    BY <1>3 DEF M
  <1>15. \A u : u \in M(k) <=> u \in M(from) \/ \E o \in from .. k - 1 : u \in B(o)
    BY <1>8, <1>9, <1>10
  <1>16. \A o \in from .. k - 1 : B(o) \cap M(from) = {}
    BY <1>11
  <1>17. \A o, l \in from .. k - 1 : l # o => B(o) \cap B(l) = {}
    BY <1>13
  <1>18. \A o \in from .. k - 1 : o \in Orders /\ Buddy_(b, o) \in Nat /\ Buddy_(b, o) % BlockSizes[o] = 0
    BY <1>2, <1>5
  <1> QED
    BY <1>4, <1>14, <1>15, <1>16, <1>17, <1>18 DEF M, B, MergesTo

(* The upper halves of a block that is split are the buddies of its base.   *)
LEMMA Halves ==
    ASSUME NEW b \in Nat, NEW k \in Orders, b % BlockSizes[k] = 0
    PROVE  /\ MergedBase(b, k) = b
           /\ \A o \in 0 .. k - 1 : Buddy_(b, o) = b + BlockSizes[o]
  <1>1. k \in Nat /\ \A o \in 0 .. k - 1 : o \in Orders /\ o + 1 \in Orders /\ o <= k /\ o + 1 <= k
    BY Orders_
  <1>2. \A o \in Orders : o <= k => MergedBase(b, o) = b
    BY AlignedBelow
  <1>3. ASSUME NEW o \in 0 .. k - 1 PROVE Buddy_(b, o) = b + BlockSizes[o]
    <2>1. MergedBase(b, o) = b /\ MergedBase(b, o + 1) = b
      BY <1>1, <1>2
    <2>2. BlockSizes[o] \in Nat \ {0}
      BY <1>1, Sizes_
    <2>3. Even(b, o)
      BY <1>1, <2>1, <2>2, UpOne
    <2> QED
      BY <1>1, <2>1, <2>3, UpOne DEF Buddy_
  <1> QED
    BY <1>1, <1>2, <1>3

(* So a block split down to an order is its lowest part and those halves.   *)
SplitsTo(b, from, k) ==
    /\ b % BlockSizes[from] = 0
    /\ \A o \in from .. k - 1 : o \in Orders /\ b + BlockSizes[o] \in Nat /\ (b + BlockSizes[o]) % BlockSizes[o] = 0
    /\ \A u : u \in Span(b, BlockSizes[k])
                <=> \/ u \in Span(b, BlockSizes[from])
                    \/ \E o \in from .. k - 1 : u \in Span(b + BlockSizes[o], BlockSizes[o])
    /\ \A o \in from .. k - 1 : Span(b + BlockSizes[o], BlockSizes[o]) \cap Span(b, BlockSizes[from]) = {}
    /\ \A o, l \in from .. k - 1 :
          l # o => Span(b + BlockSizes[o], BlockSizes[o]) \cap Span(b + BlockSizes[l], BlockSizes[l]) = {}

(* Halving a block from one order to another covers exactly that block.     *)
LEMMA Halved ==
    ASSUME NEW b \in Nat, NEW from \in Orders, NEW k \in Orders, from <= k, b % BlockSizes[k] = 0
    PROVE  SplitsTo(b, from, k)
  <1>1. b % BlockSizes[from] = 0
    BY AlignedBelow
  <1>2. from \in Nat /\ k \in Nat
    BY Orders_
  <1>3. MergedBase(b, k) = b /\ \A o \in 0 .. k - 1 : Buddy_(b, o) = b + BlockSizes[o]
    BY Halves
  <1>4. \A o \in from .. k - 1 : Buddy_(b, o) = b + BlockSizes[o]
    BY <1>2, <1>3
  <1>5. MergesTo(b, from, k)
    BY <1>1, Chain
  <1> QED
    BY <1>1, <1>3, <1>4, <1>5 DEF MergesTo, SplitsTo

-----------------------------------------------------------------------------
(* A list without one of its elements.                                      *)
LEMMA RemoveAtIs ==
    ASSUME NEW S, NEW s \in Seq(S), NEW l \in 1 .. Len(s)
    PROVE  /\ RemoveAt(s, l) \in Seq(S) /\ Len(RemoveAt(s, l)) = Len(s) - 1
           /\ \A i \in 1 .. Len(s) - 1 : RemoveAt(s, l)[i] = IF i < l THEN s[i] ELSE s[i + 1]
  <1> DEFINE a == SubSeq(s, 1, l - 1)
             b == SubSeq(s, l + 1, Len(s))
  <1>1. Len(s) \in Nat /\ \A i \in 1 .. Len(s) : s[i] \in S
    BY LenProperties, ElementOfSeq
  <1>2. a \in Seq(S) /\ Len(a) = l - 1 /\ \A i \in 1 .. l - 1 : a[i] = s[i]
    BY <1>1
  <1>3. b \in Seq(S) /\ Len(b) = Len(s) - l /\ \A i \in 1 .. Len(s) - l : b[i] = s[l + i]
    BY <1>1
  <1> HIDE DEF a, b
  <1>4. /\ a \o b \in Seq(S) /\ Len(a \o b) = Len(a) + Len(b)
        /\ \A i \in 1 .. Len(a) + Len(b) : (a \o b)[i] = IF i <= Len(a) THEN a[i] ELSE b[i - Len(a)]
    BY <1>2, <1>3, ConcatProperties
  <1>5. Len(a \o b) = Len(s) - 1
    BY <1>1, <1>2, <1>3, <1>4
  <1>6. ASSUME NEW i \in 1 .. Len(s) - 1 PROVE (a \o b)[i] = IF i < l THEN s[i] ELSE s[i + 1]
    <2>1. CASE i < l
      <3>1. i \in 1 .. l - 1 /\ i \in 1 .. Len(a) + Len(b) /\ i <= Len(a)
        BY <1>1, <1>2, <1>3, <2>1
      <3> QED
        BY <1>2, <1>4, <2>1, <3>1
    <2>2. CASE ~(i < l)
      <3>1. /\ i \in 1 .. Len(a) + Len(b) /\ ~(i <= Len(a)) /\ i - Len(a) \in 1 .. Len(s) - l
            /\ l + (i - Len(a)) = i + 1
        BY <1>1, <1>2, <1>3, <2>2
      <3>2. (a \o b)[i] = b[i - Len(a)] /\ b[i - Len(a)] = s[l + (i - Len(a))]
        BY <1>3, <1>4, <3>1
      <3> QED
        BY <2>2, <3>1, <3>2
    <2> QED
      BY <2>1, <2>2
  <1>7. RemoveAt(s, l) = a \o b
    BY DEF RemoveAt, a, b
  <1> QED
    BY <1>4, <1>5, <1>6, <1>7


(* The free lists hold each block once; what pushing, popping and removing  *)
(* make of the blocks in one.                                               *)
List(s) == s \in Seq(Units) /\ IsInjective(s)

(* What a list contains.                                                    *)
LEMMA ToSetIs ==
    ASSUME NEW S, NEW s \in Seq(S)
    PROVE  ToSet(s) \subseteq S /\ \A x : x \in ToSet(s) <=> \E i \in 1 .. Len(s) : s[i] = x
  <1>1. DOMAIN s = 1 .. Len(s) /\ \A i \in 1 .. Len(s) : s[i] \in S
    BY LenProperties, ElementOfSeq
  <1> QED
    BY <1>1 DEF ToSet

(* A list with a new element in front.                                      *)
LEMMA Pushed ==
    ASSUME NEW s, List(s), NEW e \in Units, e \notin ToSet(s)
    PROVE  List(<<e>> \o s) /\ ToSet(<<e>> \o s) = ToSet(s) \cup {e}
  <1> DEFINE t == <<e>> \o s
  <1>1. s \in Seq(Units) /\ Len(s) \in Nat /\ DOMAIN s = 1 .. Len(s) /\ <<e>> \in Seq(Units) /\ Len(<<e>>) = 1 /\ <<e>>[1] = e
    BY LenProperties DEF List
  <1>2. t \in Seq(Units) /\ Len(t) = Len(s) + 1
    BY <1>1, ConcatProperties
  <1>3. t[1] = e /\ \A i \in 1 .. Len(s) : t[i + 1] = s[i]
    <2>1. \A i \in 1 .. 1 + Len(s) : t[i] = IF i <= 1 THEN <<e>>[i] ELSE s[i - 1]
      BY <1>1, ConcatProperties
    <2> QED
      BY <1>1, <2>1
  <1> HIDE DEF t
  <1>4. \A i \in 1 .. Len(t) : i = 1 \/ \E j \in 1 .. Len(s) : i = j + 1
    <2> SUFFICES ASSUME NEW i \in 1 .. Len(t), i # 1 PROVE \E j \in 1 .. Len(s) : i = j + 1
      OBVIOUS
    <2>1. i - 1 \in 1 .. Len(s) /\ i = (i - 1) + 1
      BY <1>1, <1>2
    <2> QED
      BY <2>1
  <1>5. DOMAIN t = 1 .. Len(t)
    BY <1>2, LenProperties
  <1>6. IsInjective(t)
    <2>1. \A j \in 1 .. Len(s) : s[j] # e
      BY <1>1, ToSetIs
    <2>2. \A i, j \in 1 .. Len(s) : s[i] = s[j] => i = j
      BY <1>1 DEF List, IsInjective
    <2>3. ASSUME NEW a \in 1 .. Len(t), NEW b \in 1 .. Len(t), t[a] = t[b] PROVE a = b
      <3>1. \A i \in 1 .. Len(s) : i + 1 # 1
        BY <1>1
      <3>2. CASE a = 1 \/ b = 1
        BY <1>3, <1>4, <2>1, <2>3, <3>2, SMTT(30)
      <3>3. CASE a # 1 /\ b # 1
        <4>1. PICK i \in 1 .. Len(s), j \in 1 .. Len(s) : a = i + 1 /\ b = j + 1
          BY <1>4, <3>3
        <4>2. s[i] = s[j]
          BY <1>3, <2>3, <4>1
        <4> QED
          BY <2>2, <4>1, <4>2
      <3> QED
        BY <3>2, <3>3
    <2> QED
      BY <1>5, <2>3 DEF IsInjective
  <1>7. 1 \in 1 .. Len(t) /\ \A j \in 1 .. Len(s) : j + 1 \in 1 .. Len(t)
    BY <1>1, <1>2
  <1>8. \A x : x \in ToSet(t) <=> x \in ToSet(s) \/ x = e
    <2>1. \A x : x \in ToSet(t) <=> \E i \in 1 .. Len(t) : t[i] = x
      BY <1>2, ToSetIs
    <2>2. \A x : x \in ToSet(s) <=> \E i \in 1 .. Len(s) : s[i] = x
      BY <1>1, ToSetIs
    <2> QED
      BY <1>3, <1>4, <1>7, <2>1, <2>2, SMTT(30)
  <1> QED
    BY <1>2, <1>6, <1>8 DEF List, t

(* A list without one of its places.                                        *)
LEMMA Removed ==
    ASSUME NEW s, List(s), NEW l \in 1 .. Len(s)
    PROVE  List(RemoveAt(s, l)) /\ ToSet(RemoveAt(s, l)) = ToSet(s) \ {s[l]}
  <1>1. s \in Seq(Units) /\ Len(s) \in Nat /\ DOMAIN s = 1 .. Len(s)
    BY LenProperties DEF List
  <1>2. PICK t : t = RemoveAt(s, l)
    OBVIOUS
  <1>3. t \in Seq(Units) /\ Len(t) = Len(s) - 1 /\ \A i \in 1 .. Len(s) - 1 : t[i] = IF i < l THEN s[i] ELSE s[i + 1]
    BY <1>1, <1>2, RemoveAtIs
  <1>4. \A i, j \in 1 .. Len(s) : s[i] = s[j] => i = j
    BY <1>1 DEF List, IsInjective
  <1>5. DOMAIN t = 1 .. Len(t)
    BY <1>3, LenProperties
  <1> DEFINE from(i) == IF i < l THEN i ELSE i + 1
  <1>6. \A i \in 1 .. Len(t) : t[i] = s[from(i)] /\ from(i) \in 1 .. Len(s) /\ from(i) # l
    BY <1>1, <1>3
  <1>7. \A i, j \in 1 .. Len(t) : from(i) = from(j) => i = j
    BY <1>1, <1>3
  <1>8. \A k \in 1 .. Len(s) : k # l => \E i \in 1 .. Len(t) : from(i) = k
    <2> SUFFICES ASSUME NEW k \in 1 .. Len(s), k # l PROVE \E i \in 1 .. Len(t) : from(i) = k
      OBVIOUS
    <2>1. CASE k < l
      <3>1. k \in 1 .. Len(t) /\ from(k) = k
        BY <1>1, <1>3, <2>1
      <3> QED
        BY <3>1
    <2>2. CASE l < k
      <3>1. k - 1 \in 1 .. Len(t) /\ from(k - 1) = k
        BY <1>1, <1>3, <2>2
      <3> QED
        BY <3>1
    <2> QED
      BY <1>1, <2>1, <2>2
  <1> HIDE DEF from
  <1>9. \A a, b \in 1 .. Len(t) : t[a] = t[b] => a = b
    BY <1>4, <1>6, <1>7
  <1>10. \A x : x \in ToSet(t) <=> x \in ToSet(s) /\ x # s[l]
    <2>1. \A x : x \in ToSet(t) <=> \E i \in 1 .. Len(t) : t[i] = x
      BY <1>3, ToSetIs
    <2>2. \A x : x \in ToSet(s) <=> \E i \in 1 .. Len(s) : s[i] = x
      BY <1>1, ToSetIs
    <2>3. ASSUME NEW x, x \in ToSet(t) PROVE x \in ToSet(s) /\ x # s[l]
      BY <1>4, <1>6, <2>1, <2>2, <2>3
    <2>4. ASSUME NEW x, x \in ToSet(s), x # s[l] PROVE x \in ToSet(t)
      BY <1>6, <1>8, <2>1, <2>2, <2>4, SMTT(30)
    <2> QED
      BY <2>3, <2>4
  <1> QED
    BY <1>2, <1>3, <1>5, <1>9, <1>10 DEF List, IsInjective

(* A list without its head.                                                 *)
LEMMA Popped ==
    ASSUME NEW s, List(s), s # <<>>
    PROVE  /\ List(Tail(s)) /\ ToSet(Tail(s)) = ToSet(s) \ {Head(s)}
           /\ Head(s) \in ToSet(s) /\ Head(s) \in Units
  <1>1. s \in Seq(Units) /\ Len(s) \in Nat /\ Len(s) # 0
    BY LenProperties, EmptySeq DEF List
  <1>2. 1 \in 1 .. Len(s) /\ Head(s) = s[1] /\ s[1] \in Units
    BY <1>1, ElementOfSeq, HeadTailProperties
  <1>3. Tail(s) = RemoveAt(s, 1)
    <2>1. RemoveAt(s, 1) \in Seq(Units) /\ Len(RemoveAt(s, 1)) = Len(s) - 1
          /\ \A i \in 1 .. Len(s) - 1 : RemoveAt(s, 1)[i] = IF i < 1 THEN s[i] ELSE s[i + 1]
      BY <1>1, <1>2, RemoveAtIs
    <2>2. Tail(s) \in Seq(Units) /\ Len(Tail(s)) = Len(s) - 1 /\ \A i \in 1 .. Len(Tail(s)) : Tail(s)[i] = s[i + 1]
      BY <1>1, HeadTailProperties
    <2>3. \A i \in 1 .. Len(s) - 1 : RemoveAt(s, 1)[i] = s[i + 1]
      BY <1>1, <2>1
    <2> QED
      BY <2>1, <2>2, <2>3, SeqEqual
  <1>4. List(RemoveAt(s, 1)) /\ ToSet(RemoveAt(s, 1)) = ToSet(s) \ {s[1]}
    BY <1>2, Removed
  <1>5. s[1] \in ToSet(s)
    BY <1>1, <1>2, ToSetIs
  <1> QED
    BY <1>2, <1>3, <1>4, <1>5

(* A list without one of its elements.                                      *)
LEMMA RemovedFirst ==
    ASSUME NEW s, List(s), NEW e, e \in ToSet(s)
    PROVE  List(RemoveFirst(s, e)) /\ ToSet(RemoveFirst(s, e)) = ToSet(s) \ {e}
  <1>1. s \in Seq(Units) /\ Len(s) \in Nat
    BY LenProperties DEF List
  <1> DEFINE at == {i \in 1 .. Len(s) : s[i] = e}
  <1>2. at \in SUBSET Nat /\ at # {}
    BY <1>1, ToSetIs
  <1>3. Min(at) \in at
    BY <1>2, MinIs
  <1>4. SelectInSeq(s, LAMBDA v : v = e) = Min(at)
    BY <1>2 DEF SelectInSeq
  <1>5. RemoveFirst(s, e) = RemoveAt(s, Min(at))
    <2>1. \E i \in 1 .. Len(s) : s[i] = e
      BY <1>2
    <2> QED
      BY <1>4, <2>1 DEF RemoveFirst
  <1> HIDE DEF at
  <1>6. Min(at) \in 1 .. Len(s) /\ s[Min(at)] = e
    BY <1>3 DEF at
  <1> QED
    BY <1>5, <1>6, Removed

-----------------------------------------------------------------------------
(* The blocks that lists hold, and what the allocator's steps on the lists  *)
(* make of them.                                                            *)
Lists(l) == l \in [Orders -> Seq(Units)] /\ \A o \in Orders : IsInjective(l[o])
FreeIn(l) == UNION {{<<base, o, 0>> : base \in ToSet(l[o])} : o \in Orders}

(* The blocks on the free lists.                                            *)
LEMMA FreeInIs ==
    ASSUME NEW l
    PROVE  /\ \A x : x \in FreeIn(l) <=> \E o \in Orders : \E base \in ToSet(l[o]) : x = <<base, o, 0>>
           /\ \A base : \A o \in Orders : <<base, o, 0>> \in FreeIn(l) <=> base \in ToSet(l[o])
BY DEF FreeIn

(* The free lists, list by list.                                            *)
LEMMA ListsIs ==
    ASSUME NEW l
    PROVE  Lists(l) <=> l \in [Orders -> Seq(Units)] /\ \A o \in Orders : List(l[o])
BY DEF Lists, List

(* What is on a free list is memory.                                        *)
LEMMA FreeOnes ==
    ASSUME NEW l, Lists(l)
    PROVE  \A o \in Orders : ToSet(l[o]) \subseteq Units
  <1>1. \A o \in Orders : l[o] \in Seq(Units)
    BY DEF Lists
  <1> QED
    BY <1>1, ToSetIs

(* push_free_block adds one block.                                          *)
LEMMA PushedBlock ==
    ASSUME NEW l, Lists(l), NEW base \in Units, NEW o \in Orders, <<base, o, 0>> \notin FreeIn(l)
    PROVE  /\ Lists(push_free_block(l, base, o))
           /\ FreeIn(push_free_block(l, base, o)) = FreeIn(l) \cup {<<base, o, 0>>}
  <1>1. PICK m : m = push_free_block(l, base, o)
    OBVIOUS
  <1>2. l \in [Orders -> Seq(Units)] /\ \A k \in Orders : List(l[k])
    BY ListsIs
  <1>3. base \notin ToSet(l[o])
    BY FreeInIs
  <1>4. List(<<base>> \o l[o]) /\ ToSet(<<base>> \o l[o]) = ToSet(l[o]) \cup {base}
    BY <1>2, <1>3, Pushed
  <1>5. DOMAIN m = Orders /\ m[o] = <<base>> \o l[o] /\ \A k \in Orders : k # o => m[k] = l[k]
    BY <1>1, <1>2 DEF push_free_block
  <1>6. m = [k \in Orders |-> m[k]]
    BY <1>1, <1>2 DEF push_free_block
  <1>7. \A k \in Orders : List(m[k])
    BY <1>2, <1>4, <1>5
  <1>8. Lists(m)
    <2>1. m \in [Orders -> Seq(Units)]
      BY <1>6, <1>7 DEF List
    <2> QED
      BY <1>7, <2>1, ListsIs
  <1>9. \A k \in Orders : \A b : b \in ToSet(m[k]) <=> b \in ToSet(l[k]) \/ (k = o /\ b = base)
    BY <1>4, <1>5
  <1>10. \A x : x \in FreeIn(m) <=> x \in FreeIn(l) \/ x = <<base, o, 0>>
    <2>1. \A x : x \in FreeIn(m) <=> \E k \in Orders : \E b \in ToSet(m[k]) : x = <<b, k, 0>>
      BY FreeInIs
    <2>2. \A x : x \in FreeIn(l) <=> \E k \in Orders : \E b \in ToSet(l[k]) : x = <<b, k, 0>>
      BY FreeInIs
    <2> QED
      BY <1>9, <2>1, <2>2
  <1> QED
    BY <1>1, <1>8, <1>10

(* Merging takes the buddies off their lists and nothing else.              *)
LEMMA RemovedChain ==
    ASSUME NEW l, Lists(l), NEW b, NEW from \in Orders, NEW to \in Orders,
           \A o \in from .. to - 1 : Buddy_(b, o) \in ToSet(l[o])
    PROVE  /\ Lists(RemoveChain(l, b, from, to))
           /\ FreeIn(RemoveChain(l, b, from, to)) = FreeIn(l) \ {<<Buddy_(b, o), o, 0>> : o \in from .. to - 1}
  <1>1. PICK m : m = RemoveChain(l, b, from, to)
    OBVIOUS
  <1>2. l \in [Orders -> Seq(Units)] /\ \A k \in Orders : List(l[k])
    BY ListsIs
  <1>3. m = [o \in Orders |-> IF o \in from .. to - 1 THEN RemoveFirst(l[o], Buddy_(b, o)) ELSE l[o]]
    BY <1>1 DEF RemoveChain, Buddy_
  <1>4. \A o \in Orders : o \in from .. to - 1 =>
          List(RemoveFirst(l[o], Buddy_(b, o))) /\ ToSet(RemoveFirst(l[o], Buddy_(b, o))) = ToSet(l[o]) \ {Buddy_(b, o)}
    BY <1>2, RemovedFirst
  <1>5. \A o \in Orders : m[o] = IF o \in from .. to - 1 THEN RemoveFirst(l[o], Buddy_(b, o)) ELSE l[o]
    BY <1>3
  <1>6. \A o \in Orders : List(m[o]) /\ \A x : x \in ToSet(m[o]) <=> x \in ToSet(l[o]) /\ ~(o \in from .. to - 1 /\ x = Buddy_(b, o))
    BY <1>2, <1>4, <1>5
  <1>7. Lists(m)
    <2>1. m = [k \in Orders |-> m[k]]
      BY <1>3
    <2>2. m \in [Orders -> Seq(Units)]
      BY <1>6, <2>1 DEF List
    <2> QED
      BY <1>6, <2>2, ListsIs
  <1>8. \A x : x \in FreeIn(m) <=> x \in FreeIn(l) /\ ~(\E o \in from .. to - 1 : x = <<Buddy_(b, o), o, 0>>)
    <2>1. \A x : x \in FreeIn(m) <=> \E k \in Orders : \E d \in ToSet(m[k]) : x = <<d, k, 0>>
      BY FreeInIs
    <2>2. \A x : x \in FreeIn(l) <=> \E k \in Orders : \E d \in ToSet(l[k]) : x = <<d, k, 0>>
      BY FreeInIs
    <2>3. ASSUME NEW x, x \in FreeIn(m) PROVE x \in FreeIn(l) /\ ~(\E o \in from .. to - 1 : x = <<Buddy_(b, o), o, 0>>)
      <3>1. PICK k \in Orders : \E d \in ToSet(m[k]) : x = <<d, k, 0>>
        BY <2>1, <2>3
      <3>2. PICK d \in ToSet(m[k]) : x = <<d, k, 0>>
        BY <3>1
      <3>3. d \in ToSet(l[k]) /\ ~(k \in from .. to - 1 /\ d = Buddy_(b, k))
        BY <1>6, <3>2
      <3> QED
        BY <2>2, <3>2, <3>3
    <2>4. ASSUME NEW x, x \in FreeIn(l), ~(\E o \in from .. to - 1 : x = <<Buddy_(b, o), o, 0>>) PROVE x \in FreeIn(m)
      <3>1. PICK k \in Orders : \E d \in ToSet(l[k]) : x = <<d, k, 0>>
        BY <2>2, <2>4
      <3>2. PICK d \in ToSet(l[k]) : x = <<d, k, 0>>
        BY <3>1
      <3>3. d \in ToSet(m[k])
        BY <1>6, <2>4, <3>2
      <3> QED
        BY <2>1, <3>2, <3>3
    <2> QED
      BY <2>3, <2>4
  <1> QED
    BY <1>1, <1>7, <1>8

(* ALLOCATE's lists: the block it takes is gone, and its upper halves are   *)
(* there.                                                                   *)
Split(l, base, target, order) ==
    [o \in Orders |->
        IF o = order THEN Tail(l[o])
        ELSE IF o \in target .. order - 1 THEN <<base + block_size_for_order(o)>> \o l[o] ELSE l[o]]
HalvesOf(base, target, order) == {<<base + BlockSizes[o], o, 0>> : o \in target .. order - 1}

(* Splitting takes a block off its list and adds the upper halves.          *)
LEMMA SplitBlock ==
    ASSUME NEW l, Lists(l), NEW target \in Orders, NEW order \in Orders, l[order] # <<>>,
           \A o \in target .. order - 1 : Head(l[order]) + BlockSizes[o] \in Units
                                          /\ Head(l[order]) + BlockSizes[o] \notin ToSet(l[o])
    PROVE  /\ Lists(Split(l, Head(l[order]), target, order))
           /\ FreeIn(Split(l, Head(l[order]), target, order))
                = (FreeIn(l) \ {<<Head(l[order]), order, 0>>}) \cup HalvesOf(Head(l[order]), target, order)
  <1>1. PICK base : base = Head(l[order])
    OBVIOUS
  <1>2. PICK m : m = Split(l, base, target, order)
    OBVIOUS
  <1>3. l \in [Orders -> Seq(Units)] /\ \A k \in Orders : List(l[k])
    BY ListsIs
  <1>4. m = [o \in Orders |-> IF o = order THEN Tail(l[o])
                              ELSE IF o \in target .. order - 1 THEN <<base + BlockSizes[o]>> \o l[o] ELSE l[o]]
    BY <1>2 DEF Split, block_size_for_order
  <1>5. List(Tail(l[order])) /\ ToSet(Tail(l[order])) = ToSet(l[order]) \ {base}
    BY <1>1, <1>3, Popped
  <1>6. \A o \in Orders : o \in target .. order - 1 =>
          /\ List(<<base + BlockSizes[o]>> \o l[o])
          /\ ToSet(<<base + BlockSizes[o]>> \o l[o]) = ToSet(l[o]) \cup {base + BlockSizes[o]}
    BY <1>1, <1>3, Pushed
  <1>7. \A o \in Orders : m[o] = IF o = order THEN Tail(l[o])
                              ELSE IF o \in target .. order - 1 THEN <<base + BlockSizes[o]>> \o l[o] ELSE l[o]
    BY <1>4
  <1>8. order \notin target .. order - 1
    BY Orders_
  <1>9. \A o \in Orders : List(m[o])
    BY <1>3, <1>5, <1>6, <1>7
  <1>10. \A o \in Orders : \A x : x \in ToSet(m[o]) <=> \/ x \in ToSet(l[o]) /\ ~(o = order /\ x = base)
                                                        \/ o \in target .. order - 1 /\ x = base + BlockSizes[o]
    BY <1>5, <1>6, <1>7, <1>8
  <1>11. Lists(m)
    <2>1. m = [k \in Orders |-> m[k]]
      BY <1>4
    <2>2. m \in [Orders -> Seq(Units)]
      BY <1>9, <2>1 DEF List
    <2> QED
      BY <1>9, <2>2, ListsIs
  <1>12. \A o \in target .. order - 1 : o \in Orders
    BY Orders_
  <1>13. \A x : x \in FreeIn(m) <=> \/ x \in FreeIn(l) /\ x # <<base, order, 0>>
                                    \/ \E o \in target .. order - 1 : x = <<base + BlockSizes[o], o, 0>>
    <2>1. \A x : x \in FreeIn(m) <=> \E k \in Orders : \E d \in ToSet(m[k]) : x = <<d, k, 0>>
      BY FreeInIs
    <2>2. \A x : x \in FreeIn(l) <=> \E k \in Orders : \E d \in ToSet(l[k]) : x = <<d, k, 0>>
      BY FreeInIs
    <2>3. ASSUME NEW x, x \in FreeIn(m)
          PROVE  \/ x \in FreeIn(l) /\ x # <<base, order, 0>>
                 \/ \E o \in target .. order - 1 : x = <<base + BlockSizes[o], o, 0>>
      <3>1. PICK k \in Orders : \E d \in ToSet(m[k]) : x = <<d, k, 0>>
        BY <2>1, <2>3
      <3>2. PICK d \in ToSet(m[k]) : x = <<d, k, 0>>
        BY <3>1
      <3>3. (d \in ToSet(l[k]) /\ ~(k = order /\ d = base)) \/ (k \in target .. order - 1 /\ d = base + BlockSizes[k])
        BY <1>10, <3>2
      <3> QED
        BY <2>2, <3>2, <3>3
    <2>4. ASSUME NEW x, x \in FreeIn(l), x # <<base, order, 0>> PROVE x \in FreeIn(m)
      <3>1. PICK k \in Orders : \E d \in ToSet(l[k]) : x = <<d, k, 0>>
        BY <2>2, <2>4
      <3>2. PICK d \in ToSet(l[k]) : x = <<d, k, 0>>
        BY <3>1
      <3>3. d \in ToSet(m[k])
        BY <1>10, <2>4, <3>2
      <3> QED
        BY <2>1, <3>2, <3>3
    <2>5. ASSUME NEW o \in target .. order - 1, NEW x, x = <<base + BlockSizes[o], o, 0>> PROVE x \in FreeIn(m)
      <3>1. base + BlockSizes[o] \in ToSet(m[o])
        BY <1>10, <1>12
      <3> QED
        BY <1>12, <2>1, <2>5, <3>1
    <2> QED
      BY <2>3, <2>4, <2>5
  <1>14. FreeIn(m) = (FreeIn(l) \ {<<base, order, 0>>}) \cup HalvesOf(base, target, order)
    BY <1>13 DEF HalvesOf
  <1> QED
    BY <1>1, <1>2, <1>11, <1>14

-----------------------------------------------------------------------------
(* The regions.                                                             *)
LEMMA AlignUp ==
    ASSUME NEW x \in Nat, NEW a \in Nat \ {0}
    PROVE  /\ align_up(x, a) \in Nat /\ align_up(x, a) % a = 0
           /\ x <= align_up(x, a) /\ align_up(x, a) < x + a
  <1>1. PICK u \in Nat : u = x + a - 1
    OBVIOUS
  <1>2. PICK b : b = (u \div a) * a
    OBVIOUS
  <1>3. b \in Nat /\ b % a = 0 /\ b <= u /\ u < b + a
    BY <1>2, AlignDown
  <1>4. align_up(x, a) = b
    BY <1>1, <1>2 DEF align_up
  <1> QED
    BY <1>1, <1>3, <1>4

(* A region's pages lie in it and are whole.                                *)
LEMMA Region ==
    ASSUME NEW i \in 1 .. Len(Regions)
    PROVE  /\ region_start(i) \in Nat /\ region_start(i) % PAGE = 0
           /\ region_end(i) \in Nat /\ region_end(i) % PAGE = 0
           /\ UsablePages(i) \subseteq Span(Regions[i].base, Regions[i].size)
           /\ UsablePages(i) \subseteq Units
  <1>1. Regions \in Seq([base : Nat, size : Nat]) /\ DOMAIN Regions = 1 .. Len(Regions)
    BY RegionsAssumption, LenProperties
  <1>2. Regions[i] \in [base : Nat, size : Nat]
    BY <1>1, ElementOfSeq
  <1>3. PICK base \in Nat, size \in Nat : base = Regions[i].base /\ size = Regions[i].size
    BY <1>2
  <1>4. PAGE \in Nat \ {0}
    BY PageAssumption
  <1>5. PICK start \in Nat : start = region_start(i) /\ start % PAGE = 0 /\ base <= start
    BY <1>3, <1>4, AlignUp DEF region_start
  <1>6. PICK end \in Nat : end = region_end(i) /\ end % PAGE = 0 /\ end <= base + size
    <2>1. PICK sum \in Nat : sum = base + size
      OBVIOUS
    <2>2. PICK b : b = (sum \div PAGE) * PAGE
      OBVIOUS
    <2>3. b \in Nat /\ b % PAGE = 0 /\ b <= sum
      BY <1>4, <2>2, AlignDown
    <2>4. region_end(i) = b
      BY <1>3, <2>1, <2>2 DEF region_end, align_down
    <2> QED
      BY <2>1, <2>3, <2>4
  <1>7. UsablePages(i) \subseteq Span(Regions[i].base, Regions[i].size)
    BY <1>3, <1>5, <1>6, SMTT(30) DEF UsablePages, Span
  <1>8. Span(Regions[i].base, Regions[i].size) \subseteq Units
    BY <1>1 DEF Units
  <1> QED
    BY <1>5, <1>6, <1>7, <1>8

(* Regions share no page.                                                   *)
LEMMA RegionsApart ==
    ASSUME NEW i \in 1 .. Len(Regions), NEW j \in 1 .. Len(Regions), i # j
    PROVE  UsablePages(i) \cap UsablePages(j) = {}
  <1>1. DOMAIN Regions = 1 .. Len(Regions)
    BY RegionsAssumption, LenProperties
  <1>2. Span(Regions[i].base, Regions[i].size) \cap Span(Regions[j].base, Regions[j].size) = {}
    BY <1>1, RegionsAssumption
  <1> QED
    BY <1>2, Region

(* Addresses are naturals.                                                  *)
LEMMA UnitsAreNat == Units \subseteq Nat
  <1>1. DOMAIN Regions = 1 .. Len(Regions) /\ \A i \in 1 .. Len(Regions) : Regions[i] \in [base : Nat, size : Nat]
    BY RegionsAssumption, LenProperties, ElementOfSeq
  <1>2. \A i \in DOMAIN Regions : Span(Regions[i].base, Regions[i].size) \subseteq Nat
    BY <1>1 DEF Span
  <1> QED
    BY <1>2 DEF Units

(* There are finitely many regions.                                         *)
LEMMA RegionCount == Len(Regions) \in Nat
BY RegionsAssumption, LenProperties

-----------------------------------------------------------------------------
(* What every step keeps: besides the properties, only pointers that are    *)
(* held have a header that says LIVE, and add_region proceeds by pages.     *)
Tracked == \A p \in Units : header[p].state = "LIVE" => p \in DOMAIN live
Paced == added > 0 => current % PAGE = 0 /\ region_start(added) <= current
HInv ==
    /\ BuddyTypeOK
    /\ NoOverlap
    /\ HeadersIntact
    /\ Tracked
    /\ Paced

(* The memory handed out so far: whole regions and a part of the last.      *)
LEMMA UsableIs ==
    ASSUME added \in 0 .. Len(Regions)
    PROVE  /\ Usable \subseteq Units
           /\ \A u : u \in Usable <=> \E i \in 1 .. added : u \in UsablePages(i) /\ (i = added => u < current)
  <1>1. \A u : u \in Usable <=> \E i \in 1 .. added : u \in UsablePages(i) /\ (i = added => u < current)
    BY DEF Usable
  <1>2. \A i \in 1 .. added : i \in 1 .. Len(Regions)
    BY RegionCount
  <1> QED
    BY <1>1, <1>2, Region

(* Blocks that do not overlap.                                              *)
Apart(B) == \A a, b \in B : a # b => Extent(a) \cap Extent(b) = {}
Triples == Nat \X Orders \X Nat

(* The units of a block.                                                    *)
LEMMA ExtentIs ==
    ASSUME NEW base \in Nat, NEW o \in Orders, NEW user
    PROVE  Extent(<<base, o, user>>) = Span(base, BlockSizes[o]) /\ base \in Span(base, BlockSizes[o])
  <1>1. BlockSizes[o] \in Nat \ {0}
    BY Sizes_
  <1> QED
    BY <1>1 DEF Extent, Span, block_size_for_order

(* Blocks replaced by blocks on the same ground stay apart.                 *)
LEMMA Replaced ==
    ASSUME NEW B, NEW R, NEW N, Apart(B), Apart(N), R \subseteq B,
           \A n \in N : \A u \in Extent(n) : \E r \in R : u \in Extent(r)
    PROVE  Apart((B \ R) \cup N)
  <1>1. ASSUME NEW n \in N, NEW b \in B \ R PROVE Extent(n) \cap Extent(b) = {}
    <2> SUFFICES ASSUME NEW u \in Extent(n), u \in Extent(b) PROVE FALSE
      OBVIOUS
    <2>1. PICK r \in R : u \in Extent(r)
      OBVIOUS
    <2>2. Extent(r) \cap Extent(b) = {}
      BY DEF Apart
    <2> QED
      BY <2>1, <2>2
  <1>2. ASSUME NEW a \in (B \ R) \cup N, NEW b \in (B \ R) \cup N, a # b PROVE Extent(a) \cap Extent(b) = {}
    <2>1. CASE a \in B \ R /\ b \in B \ R
      BY <1>2, <2>1 DEF Apart
    <2>2. CASE a \in N /\ b \in N
      BY <1>2, <2>2 DEF Apart
    <2>3. CASE a \in N /\ b \in B \ R
      BY <1>1, <2>3
    <2>4. CASE a \in B \ R /\ b \in N
      BY <1>1, <2>4
    <2> QED
      BY <2>1, <2>2, <2>3, <2>4
  <1> QED
    BY <1>2 DEF Apart

(* What is put there was not there before.                                  *)
LEMMA ReplacedFresh ==
    ASSUME NEW B, NEW R, Apart(B), R \subseteq B, NEW n, NEW u, u \in Extent(n),
           \E r \in R : u \in Extent(r)
    PROVE  n \notin B \ R
BY DEF Apart

(* The state, read as blocks.                                               *)
LiveBlock(p) == <<header[p].block_base, header[p].order, p>>

(* What the invariant says of all blocks.                                   *)
LEMMA Shape ==
    ASSUME HInv
    PROVE  /\ Lists(free_lists) /\ FreeBlocks = FreeIn(free_lists)
           /\ Apart(Blocks) /\ Blocks = FreeIn(free_lists) \cup {LiveBlock(p) : p \in DOMAIN live}
           /\ Usable \subseteq Units /\ Units \subseteq Nat
           /\ \A b \in Blocks : Extent(b) \subseteq Usable /\ b[1] % BlockSizes[b[2]] = 0
  <1>1. Lists(free_lists)
    BY DEF HInv, BuddyTypeOK, NoOverlap, Lists
  <1>2. FreeBlocks = FreeIn(free_lists)
    BY DEF FreeBlocks, FreeIn
  <1>3. Blocks = FreeIn(free_lists) \cup {LiveBlock(p) : p \in DOMAIN live}
    BY <1>2 DEF Blocks, LiveBlocks, LiveBlock
  <1>4. Apart(Blocks)
    BY DEF HInv, NoOverlap, Apart
  <1>5. Usable \subseteq Units
    BY UsableIs DEF HInv, BuddyTypeOK
  <1>6. \A b \in Blocks : Extent(b) \subseteq Usable /\ b[1] % BlockSizes[b[2]] = 0
    BY DEF HInv, NoOverlap, block_size_for_order
  <1> QED
    BY <1>1, <1>2, <1>3, <1>4, <1>5, <1>6, UnitsAreNat

(* What the invariant says of a free block.                                 *)
LEMMA FreeShape ==
    ASSUME HInv, NEW o \in Orders, NEW base, base \in ToSet(free_lists[o])
    PROVE  /\ base \in Nat /\ base \in Units /\ base % BlockSizes[o] = 0
           /\ <<base, o, 0>> \in Blocks /\ Span(base, BlockSizes[o]) \subseteq Usable
           /\ Extent(<<base, o, 0>>) = Span(base, BlockSizes[o])
  <1>1. base \in Units /\ base \in Nat
    BY Shape, FreeOnes
  <1>2. <<base, o, 0>> \in Blocks
    BY Shape, FreeInIs
  <1>3. Extent(<<base, o, 0>>) = Span(base, BlockSizes[o])
    BY <1>1, ExtentIs
  <1>4. Extent(<<base, o, 0>>) \subseteq Usable /\ <<base, o, 0>>[1] % BlockSizes[<<base, o, 0>>[2]] = 0
    BY <1>2, Shape
  <1> QED
    BY <1>1, <1>2, <1>3, <1>4

(* What the invariant says of an allocation.                                *)
LEMMA LiveShape ==
    ASSUME HInv, NEW p \in DOMAIN live
    PROVE  /\ p \in Units /\ p \in Nat \ {0} /\ header[p] \in Headers
           /\ header[p].block_base \in Nat /\ header[p].order \in Orders
           /\ header[p].block_base % BlockSizes[header[p].order] = 0
           /\ LiveBlock(p) \in Blocks /\ Extent(LiveBlock(p)) = Span(header[p].block_base, BlockSizes[header[p].order])
           /\ Extent(LiveBlock(p)) \subseteq Usable
           /\ live[p] \in [size : Sizes, alignment : Alignments]
           /\ p - 1 \in Extent(LiveBlock(p)) /\ header[p].block_base < p
           /\ Span(p - 1, live[p].size + 1) \subseteq Extent(LiveBlock(p))
  <1>1. p \in Units /\ header[p] \in Headers \cup {Garbage} /\ live[p] \in [size : Sizes, alignment : Alignments]
    BY DEF HInv, BuddyTypeOK
  <1>2. header[p] \in Headers
    BY <1>1 DEF HInv, HeadersIntact
  <1>3. header[p].block_base \in Units /\ header[p].order \in Orders
    BY <1>2 DEF Headers
  <1>4. PICK base \in Nat : base = header[p].block_base
    BY <1>3, UnitsAreNat
  <1>5. LiveBlock(p) \in Blocks
    BY Shape
  <1>6. Extent(LiveBlock(p)) = Span(base, BlockSizes[header[p].order])
    BY <1>3, <1>4, ExtentIs DEF LiveBlock
  <1>7. Extent(LiveBlock(p)) \subseteq Usable /\ base % BlockSizes[header[p].order] = 0
    <2>1. LiveBlock(p)[1] = base /\ LiveBlock(p)[2] = header[p].order
      BY <1>4 DEF LiveBlock
    <2> QED
      BY <1>5, <2>1, Shape
  <1>8. Span(p - 1, live[p].size + 1) \subseteq Span(base, BlockSizes[header[p].order])
    BY <1>4 DEF HInv, HeadersIntact, block_size_for_order
  <1>9. p \in Nat /\ live[p].size \in Nat \ {0}
    BY <1>1, UnitsAreNat, RequestAssumption
  <1>10. p - 1 \in Span(p - 1, live[p].size + 1)
    BY <1>9 DEF Span
  <1>11. p - 1 \in Span(base, BlockSizes[header[p].order])
    BY <1>8, <1>10
  <1>12. base <= p - 1
    BY <1>11 DEF Span
  <1>13. p \in Nat \ {0} /\ base < p
    BY <1>9, <1>12
  <1> QED
    BY <1>1, <1>2, <1>3, <1>4, <1>5, <1>6, <1>7, <1>8, <1>11, <1>13

UsableAt(a, c) == UNION {{u \in UsablePages(i) : i = a => u < c} : i \in 1 .. a}

(* The memory handed out, before and after a step.                          *)
LEMMA UsableNow == Usable = UsableAt(added, current) /\ Usable' = UsableAt(added', current')
BY DEF Usable, UsableAt

(* The free blocks, before and after a step.                                *)
LEMMA FreeNow == FreeBlocks = FreeIn(free_lists) /\ FreeBlocks' = FreeIn(free_lists')
BY DEF FreeBlocks, FreeIn

(* Where adding the regions has got to.                                     *)
LEMMA Position ==
    ASSUME HInv
    PROVE  /\ Len(Regions) \in Nat /\ added \in Nat /\ added \in 0 .. Len(Regions) /\ current \in Nat
           /\ added > 0 => added \in 1 .. Len(Regions) /\ added \in 1 .. added
  <1>1. Len(Regions) \in Nat
    BY RegionCount
  <1>2. added \in 0 .. Len(Regions) /\ current \in Nat
    BY DEF HInv, BuddyTypeOK
  <1> QED
    BY <1>1, <1>2

-----------------------------------------------------------------------------
(* The rest holds on the machines the code is meant for.                    *)
(* Sizes grow with orders.                                                  *)
LEMMA Growing ==
    ASSUME NEW i \in Orders, NEW j \in Orders, i < j
    PROVE  BlockSizes[i] < BlockSizes[j]
  <1>1. i \in Nat /\ j \in Nat
    BY Orders_
  <1>2. i + 1 \in 0 .. j /\ i + 1 <= j
    BY <1>1
  <1>3. i + 1 \in Orders
    BY <1>2, Orders_
  <1>4. PICK s \in Nat \ {0}, t \in Nat \ {0}, l \in Nat \ {0} :
          s = BlockSizes[i] /\ t = BlockSizes[i + 1] /\ l = BlockSizes[j] /\ t = 2 * s
    BY <1>3, Sizes_
  <1>5. 0 % t = 0 /\ 0 % l = 0
    <2>1. ASSUME NEW x \in Nat \ {0} PROVE 0 % x = 0
      <3>1. (x * 0 + 0) % x = 0
        BY DivUnique
      <3> QED
        BY <3>1
    <2> QED
      BY <1>4, <2>1
  <1>6. 0 \in Span(0, t) /\ 0 \in Span(0, l)
    BY <1>4 DEF Span
  <1>7. Span(0, t) \subseteq Span(0, l)
    BY <1>2, <1>3, <1>4, <1>5, <1>6, Nested
  <1>8. t - 1 \in Span(0, t)
    BY <1>4 DEF Span
  <1>9. t - 1 \in Span(0, l)
    BY <1>7, <1>8
  <1>10. t <= l
    BY <1>4, <1>9 DEF Span
  <1> QED
    BY <1>4, <1>10

(* A buddy's buddy is the block.                                            *)
LEMMA BuddyOfBuddy ==
    ASSUME NEW o \in Orders, NEW b \in Nat, b % BlockSizes[o] = 0, o + 1 \in Orders
    PROVE  /\ BuddyOf(b, o) = Buddy_(b, o) /\ BuddyOf(b, o) \in Nat /\ BuddyOf(b, o) # b
           /\ BuddyOf(BuddyOf(b, o), o) = b
           /\ BuddyOf(b, o) = b + BlockSizes[o] \/ b = BuddyOf(b, o) + BlockSizes[o]
           /\ b = BuddyOf(b, o) + BlockSizes[o] => BuddyOf(b, o) % BlockSizes[o + 1] = 0
  <1>1. PICK s \in Nat \ {0} : s = BlockSizes[o]
    BY Sizes_
  <1>2. MergedBase(b, o) = b
    <2>1. o <= o
      BY Orders_
    <2> QED
      BY <2>1, AlignedBelow
  <1>3. PICK q \in Nat : b = s * q
    BY <1>1, Multiples
  <1>4. b \div s = q
    BY <1>1, <1>3, DivUnique, s * q + 0 = s * q
  <1>5. PICK h \in Nat, e \in 0 .. 1 : q \div 2 = h /\ q % 2 = e /\ q = 2 * h + e
    BY DivMod
  <1>6. BuddyOf(b, o) = IF e = 0 THEN b + s ELSE b - s
    BY <1>1, <1>4, <1>5 DEF BuddyOf, block_size_for_order
  <1>7. BuddyOf(b, o) = Buddy_(b, o)
    BY <1>2 DEF Buddy_
  <1>8. PICK t \in Nat \ {0} : t = BlockSizes[o + 1] /\ t = 2 * s
    BY <1>1, Sizes_
  <1>9. CASE e = 0
    <2>1. PICK d \in Nat : d = b + s
      BY <1>3
    <2>2. d = s * (q + 1)
      BY <1>3, <2>1
    <2>3. PICK r \in Nat : r = q + 1
      OBVIOUS
    <2>4. d \div s = r
      BY <2>2, <2>3, DivUnique, s * r + 0 = s * r
    <2>5. (d \div s) % 2 # 0
      <3>1. (2 * h + 1) % 2 = 1
        BY DivUnique
      <3>2. r = 2 * h + 1
        BY <1>5, <1>9, <2>3
      <3> QED
        BY <2>4, <3>1, <3>2
    <2>6. BuddyOf(d, o) = d - s
      BY <1>1, <2>5 DEF BuddyOf, block_size_for_order
    <2>7. BuddyOf(b, o) = d /\ d - s = b /\ d # b /\ b # d + s
      BY <1>6, <1>9, <2>1
    <2> QED
      BY <1>1, <1>7, <2>1, <2>6, <2>7
  <1>10. CASE e = 1
    <2>1. PICK d \in Nat : b = d + s /\ d = s * (2 * h)
      <3>1. s * (2 * h + 1) = s * (2 * h) + s
        OBVIOUS
      <3>2. s * (2 * h) \in Nat
        OBVIOUS
      <3>3. b = s * (2 * h) + s
        BY <1>3, <1>5, <1>10, <3>1
      <3> QED
        BY <3>2, <3>3
    <2>2. PICK r \in Nat : r = 2 * h
      OBVIOUS
    <2>3. d \div s = r
      BY <2>1, <2>2, DivUnique, s * r + 0 = s * r
    <2>4. (d \div s) % 2 = 0
      <3>1. (2 * h + 0) % 2 = 0
        BY DivUnique
      <3> QED
        BY <2>2, <2>3, <3>1
    <2>5. BuddyOf(d, o) = d + s
      BY <1>1, <2>4 DEF BuddyOf, block_size_for_order
    <2>6. BuddyOf(b, o) = d /\ d # b
      BY <1>6, <1>10, <2>1
    <2>7. d % t = 0
      <3>1. s * (2 * h) = (2 * s) * h
        OBVIOUS
      <3>2. d = t * h
        BY <1>8, <2>1, <3>1
      <3> QED
        BY <3>2, Multiples
    <2> QED
      BY <1>1, <1>7, <1>8, <2>1, <2>5, <2>6, <2>7
  <1> QED
    BY <1>9, <1>10

(* No region is as large as the largest block or as an int can count, no    *)
(* aligned block lies astride two regions, and callers resize with the      *)
(* alignment they allocated with.                                           *)
LEMMA InRegion ==
    ASSUME OrdinaryUse, NEW i \in 1 .. Len(Regions), NEW o \in Orders, NEW base \in Nat,
           Span(base, BlockSizes[o]) \subseteq UsablePages(i)
    PROVE  o # MAX_ORDER /\ BlockSizes[o] < INT_LIMIT
  <1>1. PICK s \in Nat \ {0} : s = BlockSizes[o]
    BY Sizes_
  <1>2. base \in UsablePages(i) /\ base + s - 1 \in UsablePages(i)
    BY <1>1 DEF Span
  <1>3. PICK start \in Nat, end \in Nat : start = region_start(i) /\ end = region_end(i)
    BY Region
  <1>4. start <= base /\ base + s - 1 < end
    BY <1>2, <1>3 DEF UsablePages
  <1>5. s <= end - start
    BY <1>4
  <1>6. INT_LIMIT \in Nat /\ MAX_ORDER \in Orders
    BY RequestAssumption, PageAssumption DEF Orders
  <1>7. end - start < INT_LIMIT /\ end - start < BlockSizes[MAX_ORDER] /\ BlockSizes[MAX_ORDER] \in Nat
    <2>1. i \in DOMAIN Regions
      BY RegionsAssumption, LenProperties
    <2> QED
      BY <1>3, <1>6, <2>1, Sizes_ DEF OrdinaryUse, block_size_for_order
  <1> QED
    BY <1>1, <1>5, <1>6, <1>7

(* Aligned usable units are those of one region.                            *)
LEMMA OneRegion ==
    ASSUME OrdinaryUse, NEW o \in Orders, NEW base \in Nat, base % BlockSizes[o] = 0,
           \A u \in Span(base, BlockSizes[o]) : \E i \in 1 .. Len(Regions) : u \in UsablePages(i),
           NEW i \in 1 .. Len(Regions), base \in UsablePages(i)
    PROVE  Span(base, BlockSizes[o]) \subseteq UsablePages(i)
  <1>1. base \in Units
    BY Region
  <1>2. DOMAIN Regions = 1 .. Len(Regions)
    BY RegionsAssumption, LenProperties
  <1> QED
    BY <1>1, <1>2 DEF OrdinaryUse, block_size_for_order

(* While memory is ordinary, no block has the largest order.                *)
LEMMA InMemory ==
    ASSUME OrdinaryUse, HInv, NEW o \in Orders, NEW base \in Nat, base % BlockSizes[o] = 0,
           Span(base, BlockSizes[o]) \subseteq Usable
    PROVE  o # MAX_ORDER /\ BlockSizes[o] < INT_LIMIT
  <1>1. base \in Span(base, BlockSizes[o])
    BY ExtentIs
  <1>2. \A u \in Usable : \E i \in 1 .. Len(Regions) : u \in UsablePages(i)
    BY Position, UsableIs
  <1>3. PICK i \in 1 .. Len(Regions) : base \in UsablePages(i)
    BY <1>1, <1>2
  <1>4. Span(base, BlockSizes[o]) \subseteq UsablePages(i)
    BY <1>2, <1>3, OneRegion
  <1> QED
    BY <1>4, InRegion

(* The order for the size of a block in memory is the block's.              *)
LEMMA OrderForBlock ==
    ASSUME NEW m \in Orders, m # MAX_ORDER, BlockSizes[m] < INT_LIMIT
    PROVE  order_for_block_size(BlockSizes[m]) = m
  <1> DEFINE T == {o \in Orders : \/ o = MAX_ORDER
                                  \/ block_size_for_order(o) >= INT_LIMIT
                                  \/ block_size_for_order(o) >= BlockSizes[m]}
  <1>1. T \in SUBSET Nat
    BY Orders_
  <1>2. m \in T
    <2>1. BlockSizes[m] >= BlockSizes[m]
      BY Sizes_
    <2> QED
      BY <2>1 DEF block_size_for_order
  <1>3. Min(T) <= m /\ Min(T) \in T
    BY <1>1, <1>2, MinIs
  <1>4. PICK t : t = Min(T)
    OBVIOUS
  <1>5. t \in Orders /\ t \in Nat /\ m \in Nat /\ t <= m
    BY <1>3, <1>4, Orders_
  <1>6. t = MAX_ORDER \/ BlockSizes[t] >= INT_LIMIT \/ BlockSizes[t] >= BlockSizes[m]
    BY <1>3, <1>4 DEF block_size_for_order
  <1>7. ~(t < m)
    <2> SUFFICES ASSUME t < m PROVE FALSE
      OBVIOUS
    <2>1. BlockSizes[t] < BlockSizes[m] /\ BlockSizes[t] \in Nat /\ BlockSizes[m] \in Nat
      BY <1>5, Growing, Sizes_
    <2>2. t # MAX_ORDER
      BY <1>5, PageAssumption DEF Orders
    <2> QED
      BY <1>6, <2>1, <2>2, RequestAssumption
  <1>8. order_for_block_size(BlockSizes[m]) = Min(T)
    BY DEF order_for_block_size
  <1> QED
    BY <1>4, <1>5, <1>7, <1>8

(* The order that a request is given suffices, if memory has such a block.  *)
LEMMA Enough ==
    ASSUME NEW base \in Nat, NEW size \in Sizes, NEW alignment \in Alignments, NEW target,
           target = order_for_block_size(next_block_size(size + alignment + 1)),
           target # MAX_ORDER, BlockSizes[target] < INT_LIMIT
    PROVE  ~(align_up(base + 1, alignment) + size > base + BlockSizes[target])
  <1>1. size \in Nat \ {0} /\ alignment \in Nat \ {0}
    BY RequestAssumption
  <1>2. PICK required \in Nat : required = size + alignment + 1
    BY <1>1
  <1>3. PICK next : next = next_block_size(required)
    OBVIOUS
  <1> DEFINE Enoughs == {o \in Orders : o = MAX_ORDER \/ block_size_for_order(o) >= required}
             S == {block_size_for_order(o) : o \in Enoughs}
  <1>4. MAX_ORDER \in Enoughs
    BY PageAssumption DEF Orders
  <1>5. S \in SUBSET Nat /\ S # {}
    BY <1>4, Sizes_ DEF block_size_for_order
  <1>6. next \in S
    BY <1>3, <1>5, MinIs DEF next_block_size
  <1>7. PICK n \in Orders : next = BlockSizes[n] /\ (n = MAX_ORDER \/ BlockSizes[n] >= required)
    BY <1>6 DEF block_size_for_order
  <1> HIDE DEF Enoughs, S
  <1> DEFINE T == {o \in Orders : \/ o = MAX_ORDER
                                  \/ block_size_for_order(o) >= INT_LIMIT
                                  \/ block_size_for_order(o) >= next}
  <1>8. T \in SUBSET Nat /\ T # {}
    BY Orders_, PageAssumption DEF Orders
  <1>9. target \in T
    <2>1. target = Min(T)
      BY <1>2, <1>3 DEF order_for_block_size
    <2> QED
      BY <1>8, <2>1, MinIs
  <1>10. target \in Orders /\ BlockSizes[target] \in Nat /\ BlockSizes[n] \in Nat
    BY <1>9, Sizes_
  <1>11. BlockSizes[target] >= BlockSizes[n]
    BY <1>7, <1>9, <1>10, RequestAssumption DEF block_size_for_order
  <1>12. n # MAX_ORDER
    <2> SUFFICES ASSUME n = MAX_ORDER PROVE FALSE
      OBVIOUS
    <2>1. target < MAX_ORDER /\ MAX_ORDER \in Orders
      BY <1>10, PageAssumption DEF Orders
    <2>2. BlockSizes[target] < BlockSizes[MAX_ORDER]
      BY <1>10, <2>1, Growing
    <2> QED
      BY <1>10, <1>11, <2>2
  <1>13. BlockSizes[target] >= required
    BY <1>7, <1>10, <1>11, <1>12
  <1>14. PICK first \in Nat : first = base + 1
    OBVIOUS
  <1>15. PICK user \in Nat : user = align_up(base + 1, alignment) /\ user < base + 1 + alignment
    BY <1>1, <1>14, AlignUp
  <1> QED
    BY <1>1, <1>2, <1>10, <1>13, <1>15

-----------------------------------------------------------------------------
(* What every step then keeps: no memory is lost, no two buddies are both   *)
(* free, add_region leaves nothing behind that would have made a larger     *)
(* block, and no store hits memory that is held.                            *)
NoFreeBuddies ==
    \A o \in Orders : o + 1 \in Orders =>
        \A base \in ToSet(free_lists[o]) : BuddyOf(base, o) \notin ToSet(free_lists[o])
CarvedWell ==
    Carving => \A o \in Orders : \A x \in region_start(added) .. current - 1 :
        x % BlockSizes[o] = 0 /\ x + BlockSizes[o] <= region_end(added) => x + BlockSizes[o] <= current
AtStart(p) == p = align_up(header[p].block_base + 1, live[p].alignment)
Good ==
    /\ RegionsManaged
    /\ NoFreeBuddies
    /\ CarvedWell
    /\ \A p \in DOMAIN live : AtStart(p)
    /\ corrupted = {}

(* The pages of blocks that are replaced stay managed when the new ones     *)
(* cover them.                                                              *)
LEMMA Recovered ==
    ASSUME HInv, RegionsManaged, NEW R, NEW N, Blocks \ R \subseteq Blocks', N \subseteq Blocks',
           \A r \in R : \A u \in Extent(r) : \E n \in N : u \in Extent(n),
           UNCHANGED <<added, current>>
    PROVE  RegionsManaged'
  <1>1. Usable' = Usable
    BY UsableNow
  <1>2. ASSUME NEW u \in Usable PROVE \E b \in Blocks' : u \in Extent(b)
    <2>1. PICK b \in Blocks : u \in Extent(b)
      BY DEF RegionsManaged
    <2>2. CASE b \in R
      BY <2>1, <2>2
    <2>3. CASE b \notin R
      BY <2>1, <2>3
    <2> QED
      BY <2>2, <2>3
  <1>3. Usable' \subseteq UNION {Extent(b) : b \in Blocks'}
    BY <1>1, <1>2
  <1> QED
    BY <1>3 DEF RegionsManaged

(* Free buddies stay merged when no new free block has its buddy free.      *)
LEMMA StillNoBuddies ==
    ASSUME HInv, NoFreeBuddies, NEW N, FreeIn(free_lists') \subseteq FreeIn(free_lists) \cup N,
           \A base : \A o \in Orders : <<base, o, 0>> \in N /\ o + 1 \in Orders =>
               /\ base \in Nat /\ base % BlockSizes[o] = 0
               /\ <<BuddyOf(base, o), o, 0>> \notin FreeIn(free_lists')
    PROVE  NoFreeBuddies'
  <1> SUFFICES ASSUME NEW o \in Orders, o + 1 \in Orders, NEW base, base \in ToSet(free_lists'[o]),
                      BuddyOf(base, o) \in ToSet(free_lists'[o])
               PROVE  FALSE
    BY DEF NoFreeBuddies
  <1>1. PICK buddy : buddy = BuddyOf(base, o)
    OBVIOUS
  <1>2. <<base, o, 0>> \in FreeIn(free_lists') /\ <<buddy, o, 0>> \in FreeIn(free_lists')
    BY <1>1, FreeInIs
  <1>3. <<base, o, 0>> \notin N
    BY <1>1, <1>2
  <1>4. base \in ToSet(free_lists[o])
    BY <1>2, <1>3, FreeInIs
  <1>5. BuddyOf(buddy, o) = base
    <2>1. base \in Nat /\ base % BlockSizes[o] = 0
      BY <1>4, FreeShape
    <2> QED
      BY <1>1, <2>1, BuddyOfBuddy
  <1>6. <<buddy, o, 0>> \notin N
    BY <1>2, <1>5
  <1>7. buddy \in ToSet(free_lists[o])
    BY <1>2, <1>6, FreeInIs
  <1> QED
    BY <1>1, <1>4, <1>7 DEF NoFreeBuddies

CarvedAt(c) ==
    c < region_end(added) => \A o \in Orders : \A x \in region_start(added) .. c - 1 :
        x % BlockSizes[o] = 0 /\ x + BlockSizes[o] <= region_end(added) => x + BlockSizes[o] <= c

(* Adding goes on where the last block ended.                               *)
LEMMA CarvedThen ==
    ASSUME NEW c, CarvedAt(c), current' = c, added' = added
    PROVE  CarvedWell'
  <1>1. region_start(added)' = region_start(added) /\ region_end(added)' = region_end(added)
    BY DEF region_start, region_end
  <1>2. SUFFICES ASSUME Carving', NEW o \in Orders, NEW x \in region_start(added) .. c - 1,
                        x % BlockSizes[o] = 0, x + BlockSizes[o] <= region_end(added)
                 PROVE  x + BlockSizes[o] <= c
    BY <1>1 DEF CarvedWell
  <1>3. c < region_end(added)
    BY <1>1, <1>2 DEF Carving
  <1> QED
    BY <1>2, <1>3 DEF CarvedAt

(* Steps that add no memory.                                                *)
LEMMA StillCarved ==
    ASSUME CarvedWell, UNCHANGED <<added, current>>
    PROVE  CarvedWell'
BY DEF CarvedWell, Carving, region_start, region_end

(* An allocation that a step leaves alone stays where it was put.           *)
LEMMA StillAtStart ==
    ASSUME NEW q, header'[q] = header[q], live'[q] = live[q], AtStart(q)
    PROVE  AtStart(q)'
BY DEF AtStart

(* What has to be shown of a step that replaces blocks by others.           *)
LEMMA StaysGood ==
    ASSUME HInv, Good, NEW R, NEW N, Blocks \ R \subseteq Blocks', N \subseteq Blocks',
           \A r \in R : \A u \in Extent(r) : \E n \in N : u \in Extent(n),
           NEW F, FreeIn(free_lists') \subseteq FreeIn(free_lists) \cup F,
           \A base : \A o \in Orders : <<base, o, 0>> \in F /\ o + 1 \in Orders =>
               /\ base \in Nat /\ base % BlockSizes[o] = 0
               /\ <<BuddyOf(base, o), o, 0>> \notin FreeIn(free_lists'),
           \A q \in DOMAIN live' : AtStart(q)', corrupted' = {}, UNCHANGED <<added, current>>
    PROVE  Good'
  <1>1. RegionsManaged'
    BY Recovered DEF Good
  <1>2. NoFreeBuddies'
    BY StillNoBuddies DEF Good
  <1>3. CarvedWell'
    BY StillCarved DEF Good
  <1> QED
    BY <1>1, <1>2, <1>3 DEF Good

-----------------------------------------------------------------------------
(* A step that replaces blocks by blocks on the same ground.                *)
Covered(N, R) == \A n \in N : \A u \in Extent(n) : \E r \in R : u \in Extent(r)

(* Replacing blocks by others inside them keeps all blocks apart.           *)
LEMMA Rearranged ==
    ASSUME HInv, NEW R, NEW N, R \subseteq Blocks, Apart(N), Covered(N, R),
           \A n \in N : n[1] % BlockSizes[n[2]] = 0,
           Blocks' \subseteq (Blocks \ R) \cup N, Lists(free_lists'), UNCHANGED <<added, current>>
    PROVE  NoOverlap'
  <1>1. Apart((Blocks \ R) \cup N)
    BY Shape, Replaced DEF Covered
  <1>2. Apart(Blocks')
    BY <1>1 DEF Apart
  <1>3. Usable' = Usable
    BY DEF Usable
  <1>4. \A r \in R : Extent(r) \subseteq Usable
    BY Shape
  <1>5. ASSUME NEW b \in Blocks' PROVE Extent(b) \subseteq Usable /\ b[1] % BlockSizes[b[2]] = 0
    <2>1. CASE b \in Blocks
      BY <2>1, Shape
    <2>2. CASE b \in N
      BY <1>4, <2>2 DEF Covered
    <2> QED
      BY <2>1, <2>2
  <1> QED
    BY <1>2, <1>3, <1>5 DEF NoOverlap, Apart, Lists, block_size_for_order

(* Nobody's header or payload is on the ground of others' blocks.           *)
LEMMA Undisturbed ==
    ASSUME HInv, NEW q \in DOMAIN live, NEW R, R \subseteq Blocks, LiveBlock(q) \notin R,
           NEW u, \E r \in R : u \in Extent(r)
    PROVE  u \notin Span(q - 1, live[q].size + 1)
  <1>1. PICK r \in R : u \in Extent(r)
    OBVIOUS
  <1>2. LiveBlock(q) # r /\ LiveBlock(q) \in Blocks /\ r \in Blocks
    BY LiveShape
  <1>3. Extent(LiveBlock(q)) \cap Extent(r) = {}
    BY <1>2, Shape DEF Apart
  <1> QED
    BY <1>1, <1>3, LiveShape

(* Writing inside other blocks does not hit this header.                    *)
LEMMA HeaderUndisturbed ==
    ASSUME HInv, NEW q \in DOMAIN live, NEW R, R \subseteq Blocks, LiveBlock(q) \notin R,
           NEW u \in Int, \E r \in R : u \in Extent(r)
    PROVE  q # u + 1
  <1>1. q \in Nat /\ live[q].size \in Nat
    BY LiveShape, RequestAssumption
  <1>2. q - 1 \in Span(q - 1, live[q].size + 1)
    BY <1>1 DEF Span
  <1>3. u \notin Span(q - 1, live[q].size + 1)
    BY Undisturbed
  <1> QED
    BY <1>1, <1>2, <1>3

(* Nor does writing many units of them.                                     *)
LEMMA NotHit ==
    ASSUME HInv, NEW q \in DOMAIN live, NEW R, R \subseteq Blocks, LiveBlock(q) \notin R,
           NEW units, \A u \in units : \E r \in R : u \in Extent(r)
    PROVE  q \notin Hit(units)
  <1>1. q \in Nat /\ live[q].size \in Nat
    BY LiveShape, RequestAssumption
  <1>2. Payload(q) \subseteq Span(q - 1, live[q].size + 1)
    BY <1>1 DEF Payload, Span
  <1>3. \A u \in units : u \notin Payload(q)
    BY <1>2, Undisturbed
  <1> QED
    BY <1>3 DEF Hit

(* A block in use and the free buddies it is merged with.                   *)
Buddies(p, k) == {<<Buddy_(header[p].block_base, o), o, 0>> : o \in header[p].order .. k - 1}
Taken(p, k) == {LiveBlock(p)} \cup Buddies(p, k)
Chained(p, k) == RemoveChain(free_lists, header[p].block_base, header[p].order, k)

(* The block that free() merges is made of this block and free ones.        *)
LEMMA Merging ==
    ASSUME HInv, NEW p \in DOMAIN live, NEW k \in Orders, header[p].order <= k,
           ChainIsFree(header[p].block_base, header[p].order, k)
    PROVE  /\ MergedBase(header[p].block_base, k) \in Units
           /\ MergedBase(header[p].block_base, k) % BlockSizes[k] = 0
           /\ Taken(p, k) \subseteq Blocks
           /\ \A u : u \in Span(MergedBase(header[p].block_base, k), BlockSizes[k]) <=> \E r \in Taken(p, k) : u \in Extent(r)
           /\ Lists(Chained(p, k)) /\ FreeIn(Chained(p, k)) = FreeIn(free_lists) \ Taken(p, k)
  <1>1. PICK b \in Nat, from \in Orders : b = header[p].block_base /\ from = header[p].order
    BY LiveShape
  <1>2. from <= k /\ b % BlockSizes[from] = 0 /\ Extent(LiveBlock(p)) = Span(b, BlockSizes[from]) /\ LiveBlock(p) \in Blocks
    BY <1>1, LiveShape
  <1>3. /\ MergedBase(b, k) \in Nat /\ MergedBase(b, k) % BlockSizes[k] = 0
        /\ \A o \in from .. k - 1 : o \in Orders /\ Buddy_(b, o) \in Nat /\ Buddy_(b, o) % BlockSizes[o] = 0
        /\ \A u : u \in Span(MergedBase(b, k), BlockSizes[k])
                    <=> \/ u \in Span(b, BlockSizes[from])
                        \/ \E o \in from .. k - 1 : u \in Span(Buddy_(b, o), BlockSizes[o])
    <2>1. MergesTo(b, from, k)
      BY <1>2, Chain
    <2> QED
      BY <2>1 DEF MergesTo
  <1>4. ASSUME NEW o \in from .. k - 1
        PROVE  /\ Buddy_(b, o) \in ToSet(free_lists[o]) /\ <<Buddy_(b, o), o, 0>> \in Blocks
               /\ Extent(<<Buddy_(b, o), o, 0>>) = Span(Buddy_(b, o), BlockSizes[o])
    <2>1. Buddy_(b, o) \in ToSet(free_lists[o])
      BY <1>1 DEF ChainIsFree, is_free_block, Buddy_
    <2> QED
      BY <1>3, <2>1, FreeShape
  <1>5. Taken(p, k) = {LiveBlock(p)} \cup {<<Buddy_(b, o), o, 0>> : o \in from .. k - 1}
    BY <1>1 DEF Taken, Buddies
  <1>6. Taken(p, k) \subseteq Blocks
    BY <1>2, <1>4, <1>5
  <1>7. \A u : u \in Span(MergedBase(b, k), BlockSizes[k]) <=> \E r \in Taken(p, k) : u \in Extent(r)
    <2>1. ASSUME NEW u, u \in Span(MergedBase(b, k), BlockSizes[k]) PROVE \E r \in Taken(p, k) : u \in Extent(r)
      <3>1. CASE u \in Span(b, BlockSizes[from])
        BY <1>2, <1>5, <3>1
      <3>2. CASE \E o \in from .. k - 1 : u \in Span(Buddy_(b, o), BlockSizes[o])
        BY <1>4, <1>5, <3>2
      <3> QED
        BY <1>3, <2>1, <3>1, <3>2
    <2>2. ASSUME NEW r \in Taken(p, k), NEW u \in Extent(r) PROVE u \in Span(MergedBase(b, k), BlockSizes[k])
      <3>1. CASE r = LiveBlock(p)
        BY <1>2, <1>3, <2>2, <3>1
      <3>2. CASE \E o \in from .. k - 1 : r = <<Buddy_(b, o), o, 0>>
        <4>1. PICK o \in from .. k - 1 : r = <<Buddy_(b, o), o, 0>>
          BY <3>2
        <4>2. u \in Span(Buddy_(b, o), BlockSizes[o])
          BY <1>4, <2>2, <4>1
        <4> QED
          BY <1>3, <4>2
      <3> QED
        BY <1>5, <3>1, <3>2
    <2> QED
      BY <2>1, <2>2
  <1>8. MergedBase(b, k) \in Units
    <2>1. MergedBase(b, k) \in Span(MergedBase(b, k), BlockSizes[k])
      BY <1>3, ExtentIs
    <2>2. PICK r \in Taken(p, k) : MergedBase(b, k) \in Extent(r)
      BY <1>7, <2>1
    <2> QED
      BY <1>6, <2>2, Shape
  <1>9. /\ Lists(Chained(p, k))
        /\ FreeIn(Chained(p, k)) = FreeIn(free_lists) \ {<<Buddy_(b, o), o, 0>> : o \in from .. k - 1}
    <2>1. Lists(free_lists)
      BY Shape
    <2>2. \A o \in from .. k - 1 : Buddy_(b, o) \in ToSet(free_lists[o])
      BY <1>4
    <2>3. /\ Lists(RemoveChain(free_lists, b, from, k))
          /\ FreeIn(RemoveChain(free_lists, b, from, k)) = FreeIn(free_lists) \ {<<Buddy_(b, o), o, 0>> : o \in from .. k - 1}
      BY <2>1, <2>2, RemovedChain
    <2>4. Chained(p, k) = RemoveChain(free_lists, b, from, k)
      BY <1>1 DEF Chained
    <2> QED
      BY <2>3, <2>4
  <1>10. LiveBlock(p) \notin FreeIn(free_lists)
    <2>1. p # 0
      BY LiveShape
    <2> QED
      BY <2>1, FreeInIs DEF LiveBlock
  <1>11. FreeIn(Chained(p, k)) = FreeIn(free_lists) \ Taken(p, k)
    BY <1>5, <1>9, <1>10
  <1> QED
    BY <1>1, <1>3, <1>6, <1>7, <1>8, <1>9, <1>11

(* Merging up to an order that the chain of free buddies reaches.           *)
LEMMA CoalescedIs ==
    ASSUME NEW b, NEW from \in Orders
    PROVE  LET k == Coalesced(b, from) IN
           /\ k \in Orders /\ from <= k /\ ChainIsFree(b, from, k)
           /\ k + 1 \in Orders => ~is_free_block(k, Buddy_(b, k))
  <1> DEFINE T == {k \in from .. MAX_ORDER : ChainIsFree(b, from, k)}
  <1>1. T \subseteq Orders
    BY PageAssumption DEF Orders
  <1>2. from \in T
    <2>1. ChainIsFree(b, from, from)
      BY Orders_ DEF ChainIsFree
    <2>2. from \in from .. MAX_ORDER
      BY PageAssumption DEF Orders
    <2> QED
      BY <2>1, <2>2
  <1>8. T \subseteq Orders /\ T # {}
    BY <1>1, <1>2
  <1>3. Max(T) \in T
    BY <1>8, MaxIs
  <1>4. Coalesced(b, from) = Max(T)
    BY DEF Coalesced
  <1>5. Max(T) \in Orders /\ from <= Max(T) /\ ChainIsFree(b, from, Max(T))
    BY <1>1, <1>3, PageAssumption DEF Orders
  <1>6. ASSUME Max(T) + 1 \in Orders, is_free_block(Max(T), Buddy_(b, Max(T))) PROVE FALSE
    <2>1. PICK k \in Nat : k = Max(T) /\ from <= k /\ from \in Nat
      BY <1>5, Orders_
    <2>2. \A o \in from .. k : o = k \/ o \in from .. k - 1
      BY <2>1
    <2>3. ChainIsFree(b, from, k + 1)
      BY <1>5, <1>6, <2>1, <2>2 DEF ChainIsFree, Buddy_
    <2>4. k + 1 \in T
      BY <1>6, <2>1, <2>3, PageAssumption DEF Orders
    <2>5. k + 1 <= k
      BY <1>8, <2>1, <2>4, MaxIs
    <2> QED
      BY <2>1, <2>5
  <1> QED
    BY <1>4, <1>5, <1>6

(* A header that a step leaves alone.                                       *)
Intact(p) ==
    /\ header[p] # Garbage
    /\ header[p].requested_size = live[p].size
    /\ header[p].requested_alignment = live[p].alignment
    /\ Span(p - 1, live[p].size + 1) \subseteq
         Span(header[p].block_base, block_size_for_order(header[p].order))
    /\ p % live[p].alignment = 0

(* The headers, one by one.                                                 *)
LEMMA IntactIs == HeadersIntact <=> \A p \in DOMAIN live : Intact(p)
BY DEF HeadersIntact, Intact

(* A header that a step leaves alone stays intact.                          *)
LEMMA StillIntact ==
    ASSUME HInv, NEW q \in DOMAIN live, header'[q] = header[q], live'[q] = live[q]
    PROVE  Intact(q)' /\ LiveBlock(q)' = LiveBlock(q)
  <1>1. Intact(q)
    BY IntactIs DEF HInv
  <1> QED
    BY <1>1 DEF Intact, LiveBlock

(* All blocks: the free ones and one per allocation.                        *)
LEMMA BlocksAre == Blocks = FreeIn(free_lists) \cup {LiveBlock(q) : q \in DOMAIN live}
BY DEF Blocks, FreeBlocks, FreeIn, LiveBlocks, LiveBlock

(* free() takes no other allocation's block.                                *)
LEMMA OthersNotTaken ==
    ASSUME HInv, NEW p \in DOMAIN live, NEW k, NEW q \in DOMAIN live, q # p
    PROVE  LiveBlock(q) \notin Taken(p, k)
  <1>1. q # 0
    BY LiveShape
  <1> QED
    BY <1>1 DEF Taken, Buddies, LiveBlock

(* No allocation's block is on a free list.                                 *)
LEMMA NotFreeIn ==
    ASSUME HInv, NEW q \in DOMAIN live, NEW l
    PROVE  LiveBlock(q) \notin FreeIn(l)
  <1>1. q # 0
    BY LiveShape
  <1> QED
    BY <1>1, FreeInIs DEF LiveBlock

(* A double free that the header reports changes nothing.                   *)
LEMMA SameHeap ==
    ASSUME HInv, UNCHANGED <<free_lists, header, live, corrupted, added, current>>,
           panic' \in {"none", "Buddy allocator: double free"}
    PROVE  HInv' /\ (Good => Good')
  <1>1. BuddyTypeOK' /\ Tracked' /\ Paced'
    BY DEF HInv, BuddyTypeOK, Tracked, Paced, region_start
  <1>2. Usable' = Usable
    BY UsableNow
  <1>3. Blocks' = Blocks
    <2>1. FreeBlocks' = FreeBlocks
      BY FreeNow
    <2>2. LiveBlocks' = LiveBlocks
      BY DEF LiveBlocks
    <2> QED
      BY <2>1, <2>2 DEF Blocks
  <1>4. NoOverlap'
    BY <1>2, <1>3 DEF HInv, NoOverlap
  <1>5. HeadersIntact'
    BY DEF HInv, HeadersIntact
  <1>6. ASSUME Good PROVE Good'
    <2>1. RegionsManaged' /\ NoFreeBuddies' /\ CarvedWell'
      BY <1>2, <1>3, <1>6, StillCarved DEF Good, RegionsManaged, NoFreeBuddies
    <2>2. \A q \in DOMAIN live' : AtStart(q)'
      BY <1>6 DEF Good, AtStart
    <2> QED
      BY <1>6, <2>1, <2>2 DEF Good
  <1> QED
    BY <1>1, <1>4, <1>5, <1>6 DEF HInv

-----------------------------------------------------------------------------
(* FREE: the block and the free buddies it merges with become one block.    *)
LEMMA FreeStep ==
    ASSUME HInv, NEW p \in DOMAIN live, Free(p)
    PROVE  HInv' /\ (Good => Good')
  <1>1. CASE header[p].state # "LIVE"
    <2>1. UNCHANGED <<free_lists, header, live, corrupted, added, current>> /\ panic' = "Buddy allocator: double free"
      BY <1>1 DEF Free
    <2> QED
      BY <2>1, SameHeap
  <1>2. CASE header[p].state = "LIVE"
    <2>1. PICK k : k = Coalesced(header[p].block_base, header[p].order)
      OBVIOUS
    <2>2. PICK base : base = MergedBase(header[p].block_base, k)
      OBVIOUS
    <2>3. /\ free_lists' = push_free_block(Chained(p, k), base, k)
          /\ header' = [header EXCEPT ![p].state = "FREED"]
          /\ live' = [q \in DOMAIN live \ {p} |-> live[q]]
          /\ corrupted' = (corrupted \cup Hit({p - 1, base})) \ {p}
          /\ UNCHANGED <<added, current, panic>>
      BY <1>2, <2>1, <2>2 DEF Free, Chained, Restrict
    <2>4. /\ k \in Orders /\ header[p].order <= k /\ ChainIsFree(header[p].block_base, header[p].order, k)
          /\ k + 1 \in Orders => ~is_free_block(k, BuddyOf(base, k))
      BY <2>1, <2>2, CoalescedIs, LiveShape DEF Buddy_
    <2>5. /\ base \in Units /\ base % BlockSizes[k] = 0
          /\ Taken(p, k) \subseteq Blocks
          /\ \A u : u \in Span(base, BlockSizes[k]) <=> \E r \in Taken(p, k) : u \in Extent(r)
          /\ Lists(Chained(p, k)) /\ FreeIn(Chained(p, k)) = FreeIn(free_lists) \ Taken(p, k)
      BY <2>2, <2>4, Merging
    <2> DEFINE block == <<base, k, 0>>
    <2>6. Extent(block) = Span(base, BlockSizes[k]) /\ base \in Extent(block)
      BY <2>4, <2>5, ExtentIs, UnitsAreNat
    <2>7. block \notin Blocks \ Taken(p, k)
      BY <2>5, <2>6, Shape, ReplacedFresh
    <2>8. block \notin FreeIn(Chained(p, k))
      BY <2>5, <2>7, Shape
    <2>9. Lists(free_lists') /\ FreeIn(free_lists') = FreeIn(Chained(p, k)) \cup {block}
      BY <2>3, <2>4, <2>5, <2>8, PushedBlock
    <2>10. header \in [Units -> Headers \cup {Garbage}] /\ p \in Units /\ header[p] \in Headers
      BY LiveShape DEF HInv, BuddyTypeOK
    <2>11. \A q \in Units : q # p => header'[q] = header[q]
      BY <2>3, <2>10
    <2>12. header'[p].state = "FREED" /\ header' \in [Units -> Headers \cup {Garbage}]
      <3>1. header' = [header EXCEPT ![p] = [header[p] EXCEPT !.state = "FREED"]]
        BY <2>3
      <3>2. [header[p] EXCEPT !.state = "FREED"] \in Headers /\ [header[p] EXCEPT !.state = "FREED"].state = "FREED"
        BY <2>10 DEF Headers
      <3> QED
        BY <2>10, <3>1, <3>2
    <2>13. \A q \in DOMAIN live : q # p => q \in Units /\ header'[q] = header[q] /\ live'[q] = live[q]
      BY <2>3, <2>11, LiveShape
    <2>14. \A q \in DOMAIN live : q # p => Intact(q)' /\ LiveBlock(q)' = LiveBlock(q)
      BY <2>13, StillIntact
    <2>15. DOMAIN live' = DOMAIN live \ {p}
      BY <2>3
    <2>16. HeadersIntact'
      <3>1. \A q \in DOMAIN live' : Intact(q)'
        BY <2>14, <2>15
      <3> QED
        BY <3>1 DEF HeadersIntact, Intact
    <2>17. Blocks' \subseteq (Blocks \ Taken(p, k)) \cup {block}
      <3>1. Blocks' = FreeIn(free_lists') \cup {LiveBlock(q)' : q \in DOMAIN live'}
        BY BlocksAre DEF Blocks, FreeBlocks, FreeIn, LiveBlocks, LiveBlock
      <3>2. ASSUME NEW q \in DOMAIN live' PROVE LiveBlock(q)' \in Blocks \ Taken(p, k)
        <4>1. q \in DOMAIN live /\ q # p
          BY <2>15
        <4> QED
          BY <2>14, <4>1, OthersNotTaken, LiveShape
      <3>3. FreeIn(free_lists') \subseteq (Blocks \ Taken(p, k)) \cup {block}
        BY <2>5, <2>9, Shape
      <3> QED
        BY <3>1, <3>2, <3>3
    <2>18. NoOverlap'
      <3>1. Apart({block})
        BY DEF Apart
      <3>2. Covered({block}, Taken(p, k))
        BY <2>5, <2>6 DEF Covered
      <3>3. \A n \in {block} : n[1] % BlockSizes[n[2]] = 0
        BY <2>5
      <3> HIDE DEF block
      <3> QED
        BY <2>3, <2>5, <2>9, <2>17, <3>1, <3>2, <3>3, Rearranged
    <2>19. BuddyTypeOK'
      <3>1. free_lists' \in [Orders -> Seq(Units)]
        BY <2>9 DEF Lists
      <3>2. DOMAIN live' \subseteq Units /\ \A q \in DOMAIN live' : live'[q] \in [size : Sizes, alignment : Alignments]
        BY <2>13, <2>15, LiveShape
      <3>3. corrupted' \subseteq DOMAIN live'
        BY <2>3, <2>15 DEF HInv, BuddyTypeOK, Hit
      <3>4. added' \in 0 .. Len(Regions) /\ current' \in Nat /\ panic' \in {"none", "Buddy allocator: double free"}
        BY <2>3 DEF HInv, BuddyTypeOK
      <3> QED
        BY <2>12, <3>1, <3>2, <3>3, <3>4 DEF BuddyTypeOK
    <2>20. Tracked' /\ Paced'
      <3>1. Tracked'
        BY <2>11, <2>12, <2>15 DEF HInv, Tracked
      <3>2. Paced'
        BY <2>3 DEF HInv, Paced, region_start
      <3> QED
        BY <3>1, <3>2
    <2>21. ASSUME Good PROVE Good'
      <3>1. ASSUME NEW b \in Blocks \ Taken(p, k) PROVE b \in Blocks'
        <4>1. Blocks' = FreeIn(free_lists') \cup {LiveBlock(q)' : q \in DOMAIN live'}
          BY BlocksAre DEF Blocks, FreeBlocks, FreeIn, LiveBlocks, LiveBlock
        <4>2. CASE b \in FreeIn(free_lists)
          BY <2>5, <2>9, <4>1, <4>2
        <4>3. CASE b \notin FreeIn(free_lists)
          <5>1. PICK q \in DOMAIN live : b = LiveBlock(q)
            BY <4>3, Shape
          <5>2. q # p
            BY <5>1 DEF Taken
          <5> QED
            BY <2>14, <2>15, <4>1, <5>1, <5>2
        <4> QED
          BY <4>2, <4>3
      <3>2. block \in Blocks'
        BY <2>9, BlocksAre, FreeNow DEF Blocks
      <3>3. \A r \in Taken(p, k) : \A u \in Extent(r) : \E n \in {block} : u \in Extent(n)
        BY <2>5, <2>6
      <3>4. FreeIn(free_lists') \subseteq FreeIn(free_lists) \cup {block}
        BY <2>5, <2>9
      <3>5. k + 1 \in Orders => <<BuddyOf(base, k), k, 0>> \notin FreeIn(free_lists')
        <4> SUFFICES ASSUME k + 1 \in Orders PROVE <<BuddyOf(base, k), k, 0>> \notin FreeIn(free_lists')
          OBVIOUS
        <4>1. BuddyOf(base, k) # base
          BY <2>4, <2>5, UnitsAreNat, BuddyOfBuddy
        <4>2. <<BuddyOf(base, k), k, 0>> \notin FreeIn(free_lists)
          BY <2>4, FreeInIs DEF is_free_block
        <4> QED
          BY <3>4, <4>1, <4>2
      <3>6. base \in Nat
        BY <2>5, UnitsAreNat
      <3>7. \A q \in DOMAIN live' : AtStart(q)'
        BY <2>13, <2>15, <2>21, StillAtStart DEF Good
      <3>8. corrupted' = {}
        <4>1. ASSUME NEW q \in DOMAIN live, q # p PROVE q \notin Hit({p - 1, base})
          <5>1. p - 1 \in Extent(LiveBlock(p)) /\ LiveBlock(p) \in Taken(p, k)
            BY LiveShape DEF Taken
          <5>2. \E r \in Taken(p, k) : base \in Extent(r)
            BY <2>5, <2>6
          <5>3. \A u \in {p - 1, base} : \E r \in Taken(p, k) : u \in Extent(r)
            BY <5>1, <5>2
          <5> QED
            BY <2>5, <4>1, <5>3, OthersNotTaken, NotHit
        <4>2. Hit({p - 1, base}) \subseteq DOMAIN live
          BY DEF Hit
        <4> QED
          BY <2>3, <2>21, <4>1, <4>2 DEF Good
      <3>9. Blocks \ Taken(p, k) \subseteq Blocks' /\ {block} \subseteq Blocks'
        BY <3>1, <3>2
      <3>10. \A x : \A o \in Orders : <<x, o, 0>> \in {block} /\ o + 1 \in Orders =>
                /\ x \in Nat /\ x % BlockSizes[o] = 0
                /\ <<BuddyOf(x, o), o, 0>> \notin FreeIn(free_lists')
        BY <2>5, <3>5, <3>6
      <3> HIDE DEF block
      <3> QED
        BY <2>3, <2>21, <3>3, <3>4, <3>7, <3>8, <3>9, <3>10, StaysGood, ZenonT(40)
    <2> QED
      BY <2>16, <2>18, <2>19, <2>20, <2>21 DEF HInv
  <1> QED
    BY <1>1, <1>2

-----------------------------------------------------------------------------
(* What callers write.                                                      *)
LEMMA FilledIs ==
    ASSUME NEW h, h \in [Units -> Headers \cup {Garbage}], NEW x, NEW size
    PROVE  /\ Filled(h, x, size) \in [Units -> Headers \cup {Garbage}]
           /\ \A u \in Units : Filled(h, x, size)[u] = IF u - 1 \in Span(x, size) THEN Garbage ELSE h[u]
BY DEF Filled

(* RESIZE within the block.                                                 *)
LEMMA ResizeWithinStep ==
    ASSUME HInv, NEW p \in DOMAIN live, NEW size \in Sizes, NEW alignment \in Alignments,
           ResizeWithin(p, size, alignment)
    PROVE  HInv' /\ (Good => Good')
  <1> DEFINE h == [header EXCEPT ![p].requested_size = size]
  <1>1. header' = Filled(h, p, size) /\ live' = [live EXCEPT ![p].size = size]
        /\ UNCHANGED <<free_lists, corrupted, added, current, panic>>
    BY DEF ResizeWithin
  <1>2. size <= header[p].block_base + BlockSizes[header[p].order] - p
    BY DEF ResizeWithin, FitsInBlock, Available, block_size_for_order
  <1>3. PICK base \in Nat, o \in Orders : base = header[p].block_base /\ o = header[p].order
    BY LiveShape
  <1>4. BlockSizes[o] \in Nat /\ p \in Nat /\ base < p /\ size \in Nat \ {0} /\ p + size <= base + BlockSizes[o]
    <2>1. BlockSizes[o] \in Nat /\ p \in Nat /\ base < p /\ size \in Nat \ {0}
      BY <1>3, Sizes_, LiveShape, RequestAssumption
    <2> QED
      BY <1>2, <1>3, <2>1
  <1>5. Extent(LiveBlock(p)) = Span(base, BlockSizes[o]) /\ LiveBlock(p) \in Blocks
    BY <1>3, LiveShape
  <1>6. Span(p - 1, size + 1) \subseteq Span(base, BlockSizes[o]) /\ Span(p, size) \subseteq Span(base, BlockSizes[o])
    BY <1>4 DEF Span
  <1>7. p - 1 \notin Span(p, size)
    BY <1>4 DEF Span
  <1>8. header \in [Units -> Headers \cup {Garbage}] /\ p \in Units /\ header[p] \in Headers
    BY LiveShape DEF HInv, BuddyTypeOK
  <1>9. /\ h \in [Units -> Headers \cup {Garbage}] /\ \A q \in Units : q # p => h[q] = header[q]
        /\ h[p] \in Headers /\ h[p].requested_size = size /\ h[p].requested_alignment = header[p].requested_alignment
        /\ h[p].block_base = base /\ h[p].order = o /\ h[p].state = header[p].state
    <2> DEFINE r == [header[p] EXCEPT !.requested_size = size]
    <2>1. h = [header EXCEPT ![p] = r]
      OBVIOUS
    <2>2. r \in Headers /\ r.requested_size = size /\ r.requested_alignment = header[p].requested_alignment
          /\ r.block_base = base /\ r.order = o /\ r.state = header[p].state
      BY <1>3, <1>8 DEF Headers
    <2> HIDE DEF r
    <2>3. h \in [Units -> Headers \cup {Garbage}] /\ h[p] = r /\ \A q \in Units : q # p => h[q] = header[q]
      BY <1>8, <2>1, <2>2
    <2> QED
      BY <2>2, <2>3
  <1> HIDE DEF h
  <1>10. header' \in [Units -> Headers \cup {Garbage}]
         /\ \A u \in Units : header'[u] = IF u - 1 \in Span(p, size) THEN Garbage ELSE h[u]
    BY <1>1, <1>9, FilledIs
  <1>11. header'[p] = h[p]
    BY <1>7, <1>8, <1>10
  <1>12. DOMAIN live' = DOMAIN live
    BY <1>1
  <1>13. /\ live'[p].size = size /\ live'[p].alignment = live[p].alignment
         /\ live'[p] \in [size : Sizes, alignment : Alignments]
         /\ \A q \in DOMAIN live : q # p => live'[q] = live[q]
    <2> DEFINE r == [live[p] EXCEPT !.size = size]
    <2>1. live' = [live EXCEPT ![p] = r]
      BY <1>1
    <2>2. r \in [size : Sizes, alignment : Alignments] /\ r.size = size /\ r.alignment = live[p].alignment
      BY LiveShape
    <2> HIDE DEF r
    <2>3. live'[p] = r /\ \A q \in DOMAIN live : q # p => live'[q] = live[q]
      BY <2>1
    <2> QED
      BY <2>2, <2>3
  <1>14. ASSUME NEW q \in DOMAIN live, q # p PROVE header'[q] = header[q]
    <2>1. LiveBlock(q) \notin {LiveBlock(p)}
      BY <1>14 DEF LiveBlock
    <2>2. q \in Units /\ q \in Nat
      BY LiveShape
    <2>3. q - 1 \notin Span(p, size)
      <3> SUFFICES ASSUME q - 1 \in Span(p, size) PROVE FALSE
        OBVIOUS
      <3>1. q - 1 \in Int /\ \E r \in {LiveBlock(p)} : q - 1 \in Extent(r)
        BY <1>5, <1>6, <2>2
      <3>2. q # (q - 1) + 1
        BY <1>5, <2>1, <3>1, HeaderUndisturbed
      <3> QED
        BY <2>2, <3>2
    <2> QED
      BY <1>9, <1>10, <1>14, <2>2, <2>3
  <1>15. \A q \in DOMAIN live : q # p => Intact(q)' /\ LiveBlock(q)' = LiveBlock(q)
    BY <1>13, <1>14, StillIntact
  <1>16. LiveBlock(p)' = LiveBlock(p)
    BY <1>3, <1>9, <1>11 DEF LiveBlock
  <1>17. Intact(p)'
    <2>1. Intact(p)
      BY IntactIs DEF HInv
    <2>2. header'[p] # Garbage
      BY <1>9, <1>11 DEF Headers, Garbage
    <2>3. header'[p].requested_size = live'[p].size
      BY <1>9, <1>11, <1>13
    <2>4. header'[p].requested_alignment = live'[p].alignment
      BY <1>9, <1>11, <1>13, <2>1 DEF Intact
    <2>5. Span(p - 1, live'[p].size + 1) \subseteq Span(header'[p].block_base, block_size_for_order(header'[p].order))
      BY <1>6, <1>9, <1>11, <1>13 DEF block_size_for_order
    <2>6. p % live'[p].alignment = 0
      BY <1>13, <2>1 DEF Intact
    <2> QED
      BY <2>2, <2>3, <2>4, <2>5, <2>6 DEF Intact
  <1>18. HeadersIntact'
    <2>1. \A q \in DOMAIN live' : Intact(q)'
      BY <1>12, <1>15, <1>17
    <2> QED
      BY <2>1 DEF HeadersIntact, Intact
  <1>19. Blocks' \subseteq Blocks
    <2>1. Blocks' = FreeIn(free_lists') \cup {LiveBlock(q)' : q \in DOMAIN live'}
      BY BlocksAre DEF Blocks, FreeBlocks, FreeIn, LiveBlocks, LiveBlock
    <2>2. ASSUME NEW q \in DOMAIN live' PROVE LiveBlock(q)' \in Blocks
      BY <1>12, <1>15, <1>16, LiveShape
    <2> QED
      BY <1>1, <2>1, <2>2, Shape
  <1>20. NoOverlap'
    <2>1. Apart({}) /\ Covered({}, {}) /\ Lists(free_lists') /\ Blocks' \subseteq (Blocks \ {}) \cup {}
      BY <1>1, <1>19, Shape DEF Apart, Covered
    <2> QED
      BY <1>1, <2>1, Rearranged
  <1>21. BuddyTypeOK'
    <2>1. \A q \in DOMAIN live' : live'[q] \in [size : Sizes, alignment : Alignments]
      BY <1>12, <1>13, LiveShape
    <2> QED
      BY <1>1, <1>10, <1>12, <2>1 DEF HInv, BuddyTypeOK
  <1>22. Tracked'
    <2>1. \A q \in Units : header'[q].state = "LIVE" => header[q].state = "LIVE"
      <3>1. Garbage.state # "LIVE"
        BY DEF Garbage
      <3> QED
        BY <1>9, <1>10, <3>1
    <2> QED
      BY <1>12, <2>1 DEF HInv, Tracked
  <1>23. Paced'
    BY <1>1 DEF HInv, Paced, region_start
  <1>24. ASSUME Good PROVE Good'
    <2>1. Blocks' = FreeIn(free_lists') \cup {LiveBlock(q)' : q \in DOMAIN live'}
      BY BlocksAre DEF Blocks, FreeBlocks, FreeIn, LiveBlocks, LiveBlock
    <2>2. \A q \in DOMAIN live : LiveBlock(q) \in Blocks'
      BY <1>12, <1>15, <1>16, <2>1
    <2>3. Blocks \subseteq Blocks'
      BY <1>1, <2>1, <2>2, Shape
    <2>4. AtStart(p)'
      <3>1. AtStart(p)
        BY <1>24 DEF Good
      <3> QED
        BY <1>3, <1>9, <1>11, <1>13, <3>1 DEF AtStart
    <2>5. \A q \in DOMAIN live' : AtStart(q)'
      BY <1>12, <1>13, <1>14, <1>24, <2>4, StillAtStart DEF Good
    <2> DEFINE nothing == {}
    <2>6. /\ Blocks \ nothing \subseteq Blocks' /\ nothing \subseteq Blocks'
          /\ FreeIn(free_lists') \subseteq FreeIn(free_lists) \cup nothing
          /\ \A x : x \notin nothing
      BY <1>1, <2>3
    <2> HIDE DEF nothing
    <2>7. corrupted' = {} /\ UNCHANGED <<added, current>>
      BY <1>1, <1>24 DEF Good
    <2> QED
      BY <1>24, <2>5, <2>6, <2>7, StaysGood
  <1> QED
    BY <1>18, <1>20, <1>21, <1>22, <1>23, <1>24 DEF HInv

-----------------------------------------------------------------------------
(* Where a payload of some size goes in a block.                            *)
LEMMA Placement ==
    ASSUME NEW base \in Nat, NEW o \in Orders, NEW size \in Sizes, NEW alignment \in Alignments,
           ~(align_up(base + 1, alignment) + size > base + BlockSizes[o])
    PROVE  LET user == align_up(base + 1, alignment) IN
           /\ user \in Nat /\ user % alignment = 0 /\ base < user
           /\ user - 1 \in Span(base, BlockSizes[o]) /\ user \in Span(base, BlockSizes[o])
           /\ Span(user, size) \subseteq Span(base, BlockSizes[o])
           /\ Span(user - 1, size + 1) \subseteq Span(base, BlockSizes[o])
           /\ user - 1 \notin Span(user, size)
  <1>1. size \in Nat \ {0} /\ alignment \in Nat \ {0} /\ BlockSizes[o] \in Nat
    BY RequestAssumption, Sizes_
  <1>2. PICK first \in Nat : first = base + 1
    OBVIOUS
  <1>3. PICK user \in Nat : user = align_up(base + 1, alignment) /\ user % alignment = 0 /\ base + 1 <= user
    BY <1>1, <1>2, AlignUp
  <1>4. user + size <= base + BlockSizes[o]
    BY <1>1, <1>3
  <1>5. /\ base < user /\ user - 1 \in Span(base, BlockSizes[o]) /\ user \in Span(base, BlockSizes[o])
        /\ Span(user, size) \subseteq Span(base, BlockSizes[o])
        /\ Span(user - 1, size + 1) \subseteq Span(base, BlockSizes[o])
        /\ user - 1 \notin Span(user, size)
    BY <1>1, <1>3, <1>4 DEF Span
  <1> QED
    BY <1>3, <1>5

(* The order of a size exists, or is clamped to the largest.                *)
LEMMA OrderForIsOrder == ASSUME NEW size PROVE order_for_block_size(size) \in Orders
  <1> DEFINE T == {o \in Orders : \/ o = MAX_ORDER
                                  \/ block_size_for_order(o) >= INT_LIMIT
                                  \/ block_size_for_order(o) >= size}
  <1>1. T \subseteq Nat /\ T # {}
    BY Orders_, PageAssumption DEF Orders
  <1>2. Min(T) \in T
    BY <1>1, MinIs
  <1>3. order_for_block_size(size) = Min(T)
    BY DEF order_for_block_size
  <1>4. T \subseteq Orders
    OBVIOUS
  <1> QED
    BY <1>2, <1>3, <1>4

(* A payload that moves down to the start of the merged block ends below    *)
(* the header it had.                                                       *)
LEMMA MovedDown ==
    ASSUME HInv, NEW p \in DOMAIN live, AtStart(p), NEW target \in Orders, header[p].order <= target,
           NEW base, base = MergedBase(header[p].block_base, target),
           NEW user, user = align_up(base + 1, live[p].alignment),
           NEW size \in Nat, size <= live[p].size
    PROVE  p - 1 \notin Span(user, size)
  <1>1. PICK b \in Nat, from \in Orders : b = header[p].block_base /\ from = header[p].order
    BY LiveShape
  <1>2. PICK s \in Nat \ {0} : s = BlockSizes[from]
    BY Sizes_
  <1>3. PICK a \in Nat \ {0} : a = live[p].alignment /\ a \in Alignments
    BY LiveShape, RequestAssumption
  <1>4. PICK length \in Nat \ {0} : length = live[p].size
    BY LiveShape, RequestAssumption
  <1>5. p \in Nat /\ b < p /\ b % s = 0
    BY <1>1, <1>2, LiveShape
  <1>6. p + length <= b + s
    <2>1. Span(p - 1, length + 1) \subseteq Span(b, s)
      BY <1>1, <1>2, <1>4, LiveShape
    <2>2. p - 1 + length \in Span(p - 1, length + 1)
      BY <1>4, <1>5 DEF Span
    <2>3. p - 1 + length \in Span(b, s)
      BY <2>1, <2>2
    <2> QED
      BY <1>1, <1>2, <1>4, <1>5, <2>3 DEF Span
  <1>7. p % a = 0 /\ p = align_up(b + 1, a)
    BY <1>1, <1>3, IntactIs DEF HInv, Intact, AtStart
  <1>8. base \in Nat /\ base % s = 0 /\ base <= b
    <2>1. base \in Nat /\ base % BlockSizes[target] = 0 /\ base <= b
      BY <1>1, AroundUnit
    <2> QED
      BY <1>1, <1>2, <2>1, AlignedBelow
  <1>9. user \in Nat /\ user <= base + a
    <2>1. PICK first \in Nat : first = base + 1
      BY <1>8
    <2>2. align_up(first, a) \in Nat /\ align_up(first, a) < first + a
      BY <2>1, AlignUp
    <2> QED
      BY <1>3, <1>8, <2>1, <2>2
  <1>10. CASE base = b
    BY <1>3, <1>5, <1>7, <1>10 DEF Span
  <1>11. CASE base < b
    <2>1. base + s <= b
      <3>1. PICK d \in Nat \ {0} : d = b - base
        BY <1>8, <1>11
      <3>2. d % s = 0
        BY <1>5, <1>8, <3>1, MultipleSum
      <3>3. s <= d
        BY <3>1, <3>2, AtLeast
      <3> QED
        BY <1>8, <3>1, <3>3
    <2>2. PICK gap \in Nat \ {0} : gap = p - b
      BY <1>5
    <2>3. CASE s % a = 0
      <3>1. b % a = 0
        BY <1>5, <2>3, MultipleOf
      <3>2. gap % a = 0
        BY <1>5, <1>7, <2>2, <3>1, MultipleSum
      <3>3. a <= gap
        BY <3>2, AtLeast
      <3>4. a + length <= s
        BY <1>5, <1>6, <2>2, <3>3
      <3>5. user + size <= b
        BY <1>4, <1>8, <1>9, <2>1, <3>4
      <3> QED
        BY <1>5, <1>9, <3>5 DEF Span
    <2>4. CASE a % s = 0
      <3>1. p % s = 0
        BY <1>5, <1>7, <2>4, MultipleOf
      <3>2. gap % s = 0
        BY <1>5, <2>2, <3>1, MultipleSum
      <3>3. s <= gap
        BY <3>2, AtLeast
      <3> QED
        BY <1>5, <1>6, <2>2, <3>3
    <2> QED
      BY <1>2, <1>3, <2>3, <2>4, RequestAssumption
  <1> QED
    BY <1>8, <1>10, <1>11

(* RESIZE by merging: the block and its buddies become one block in use.    *)
LEMMA ResizeMergeStep ==
    ASSUME HInv, NEW p \in DOMAIN live, NEW size \in Sizes, NEW alignment \in Alignments,
           ResizeMerge(p, size, alignment)
    PROVE  HInv' /\ (OrdinaryUse /\ Good /\ alignment = live[p].alignment => Good')
  <1>1. PICK target : target = order_for_block_size(next_block_size(size + alignment + 1))
    OBVIOUS
  <1>2. PICK base : base = MergedBase(header[p].block_base, target)
    OBVIOUS
  <1>3. PICK user : user = align_up(base + 1, alignment)
    OBVIOUS
  <1> DEFINE block == <<base, target, user>>
             stores == [header EXCEPT ![user] = Header(base, target, size, alignment)]
             retired == RetireHeader(stores, p)
  <1>4. target \in Orders /\ header[p].order <= target /\ ChainIsFree(header[p].block_base, header[p].order, target)
    <2>1. target \in Orders /\ header[p].order \in Orders
      BY <1>1, OrderForIsOrder, LiveShape
    <2>2. target > header[p].order /\ ChainIsFree(header[p].block_base, header[p].order, target)
      BY <1>1 DEF ResizeMerge
    <2>3. target \in Nat /\ header[p].order \in Nat
      BY <2>1, Orders_
    <2>4. header[p].order <= target
      BY <2>2, <2>3
    <2> QED
      BY <2>1, <2>2, <2>4
  <1>5. free_lists' = Chained(p, target) /\ UNCHANGED <<added, current, panic>>
    BY <1>1 DEF ResizeMerge, Chained
  <1>6. /\ base \in Units /\ base % BlockSizes[target] = 0
        /\ Taken(p, target) \subseteq Blocks
        /\ \A u : u \in Span(base, BlockSizes[target]) <=> \E r \in Taken(p, target) : u \in Extent(r)
        /\ Lists(Chained(p, target)) /\ FreeIn(Chained(p, target)) = FreeIn(free_lists) \ Taken(p, target)
    BY <1>2, <1>4, Merging
  <1>7. base \in Nat
    BY <1>6, UnitsAreNat
  <1>8. CASE user + size > base + BlockSizes[target]
    <2>1. UNCHANGED <<header, live, corrupted>>
      BY <1>1, <1>2, <1>3, <1>8 DEF ResizeMerge, block_size_for_order
    <2>2. BuddyTypeOK'
      <3>1. free_lists' \in [Orders -> Seq(Units)]
        BY <1>5, <1>6 DEF Lists
      <3> QED
        BY <1>5, <2>1, <3>1 DEF HInv, BuddyTypeOK
    <2>3. Tracked' /\ Paced' /\ HeadersIntact'
      BY <1>5, <2>1 DEF HInv, Tracked, Paced, region_start, HeadersIntact
    <2>4. Blocks' \subseteq Blocks
      <3>1. Blocks' = FreeIn(free_lists') \cup {LiveBlock(q)' : q \in DOMAIN live'}
        BY BlocksAre DEF Blocks, FreeBlocks, FreeIn, LiveBlocks, LiveBlock
      <3>2. \A q \in DOMAIN live' : LiveBlock(q)' \in Blocks
        BY <2>1, LiveShape DEF LiveBlock
      <3> QED
        BY <1>5, <1>6, <3>1, <3>2, Shape
    <2>5. NoOverlap'
      <3>1. Apart({}) /\ Covered({}, {}) /\ Lists(free_lists') /\ Blocks' \subseteq (Blocks \ {}) \cup {}
        BY <1>5, <1>6, <2>4 DEF Apart, Covered
      <3> QED
        BY <1>5, <3>1, Rearranged
    <2>6. ~OrdinaryUse
      <3> SUFFICES ASSUME OrdinaryUse PROVE FALSE
        OBVIOUS
      <3>1. Span(base, BlockSizes[target]) \subseteq Usable
        BY <1>6, Shape
      <3>2. target # MAX_ORDER /\ BlockSizes[target] < INT_LIMIT
        BY <1>4, <1>6, <1>7, <3>1, InMemory
      <3> QED
        BY <1>1, <1>3, <1>4, <1>7, <1>8, <3>2, Enough
    <2> QED
      BY <2>2, <2>3, <2>5, <2>6 DEF HInv
  <1>9. CASE ~(user + size > base + BlockSizes[target])
    <2>1. /\ header' = Filled(retired, user, size)
          /\ live' = [q \in (DOMAIN live \ {p}) \cup {user} |->
                         IF q = user THEN [size |-> size, alignment |-> alignment] ELSE live[q]]
          /\ corrupted' = (corrupted \cup Hit({user - 1, p - 1})
                             \cup {q \in {user} : p \in corrupted \/ p - 1 \in Span(user, Min({live[p].size, size}))})
                            \ ({p} \ {user})
      BY <1>1, <1>2, <1>3, <1>9 DEF ResizeMerge, block_size_for_order
    <2>2. /\ user \in Nat /\ user % alignment = 0 /\ base < user
          /\ user - 1 \in Span(base, BlockSizes[target]) /\ user \in Span(base, BlockSizes[target])
          /\ Span(user, size) \subseteq Span(base, BlockSizes[target])
          /\ Span(user - 1, size + 1) \subseteq Span(base, BlockSizes[target])
          /\ user - 1 \notin Span(user, size)
      BY <1>3, <1>4, <1>7, <1>9, Placement
    <2>3. user \in Units
      BY <1>6, <2>2, Shape
    <2>4. p \in Units /\ p \in Nat
      BY LiveShape
    <2>5. Header(base, target, size, alignment) \in Headers
      BY <1>4, <1>6 DEF Header, Headers
    <2>6. header \in [Units -> Headers \cup {Garbage}]
      BY DEF HInv, BuddyTypeOK
    <2>7. /\ stores \in [Units -> Headers \cup {Garbage}] /\ stores[user] = Header(base, target, size, alignment)
          /\ \A u \in Units : u # user => stores[u] = header[u]
          /\ stores[p] \in Headers
      BY <2>3, <2>5, <2>6, LiveShape
    <2> HIDE DEF stores
    <2>8. /\ retired \in [Units -> Headers \cup {Garbage}] /\ \A u \in Units : u # p => retired[u] = stores[u]
          /\ retired[p] \in Headers /\ retired[p].state = "FREED" /\ retired[p].block_base = stores[p].block_base
          /\ retired[p].order = stores[p].order /\ retired[p].requested_size = stores[p].requested_size
          /\ retired[p].requested_alignment = stores[p].requested_alignment
      <3> DEFINE r == [stores[p] EXCEPT !.state = "FREED"]
      <3>1. retired = [stores EXCEPT ![p] = r]
        BY DEF RetireHeader
      <3>2. r \in Headers /\ r.state = "FREED" /\ r.block_base = stores[p].block_base /\ r.order = stores[p].order
            /\ r.requested_size = stores[p].requested_size /\ r.requested_alignment = stores[p].requested_alignment
        BY <2>7 DEF Headers
      <3> HIDE DEF r
      <3>3. retired \in [Units -> Headers \cup {Garbage}] /\ retired[p] = r /\ \A u \in Units : u # p => retired[u] = stores[u]
        BY <2>4, <2>7, <3>1, <3>2
      <3> QED
        BY <3>2, <3>3
    <2> HIDE DEF retired
    <2>9. /\ header' \in [Units -> Headers \cup {Garbage}]
          /\ \A u \in Units : header'[u] = IF u - 1 \in Span(user, size) THEN Garbage ELSE retired[u]
      BY <2>1, <2>8, FilledIs
    <2>10. /\ header'[user] \in Headers /\ header'[user].block_base = base /\ header'[user].order = target
           /\ header'[user].requested_size = size /\ header'[user].requested_alignment = alignment
      <3>1. header'[user] = retired[user]
        BY <2>2, <2>3, <2>9
      <3>2. /\ stores[user] \in Headers /\ stores[user].block_base = base /\ stores[user].order = target
            /\ stores[user].requested_size = size /\ stores[user].requested_alignment = alignment
        BY <2>5, <2>7 DEF Header
      <3>3. CASE user = p
        BY <2>8, <3>1, <3>2, <3>3
      <3>4. CASE user # p
        BY <2>3, <2>8, <3>1, <3>2, <3>4
      <3> QED
        BY <3>3, <3>4
    <2>11. ASSUME NEW q \in DOMAIN live, q # p PROVE q # user /\ header'[q] = header[q]
      <3>1. LiveBlock(q) \notin Taken(p, target)
        BY <2>11, OthersNotTaken
      <3>2. q \in Units /\ q \in Nat
        BY LiveShape
      <3>3. \A u \in Int : u \in Span(base, BlockSizes[target]) => q # u + 1
        BY <1>6, <3>1, HeaderUndisturbed
      <3>4. q # user
        <4>1. user - 1 \in Int /\ (user - 1) + 1 = user
          BY <2>2
        <4> QED
          BY <2>2, <3>3, <4>1
      <3>5. q - 1 \notin Span(user, size)
        <4>1. q - 1 \in Int /\ (q - 1) + 1 = q
          BY <3>2
        <4> QED
          BY <2>2, <3>3, <4>1
      <3> QED
        BY <2>7, <2>8, <2>9, <2>11, <3>2, <3>4, <3>5
    <2>12. DOMAIN live' = (DOMAIN live \ {p}) \cup {user}
           /\ live'[user] = [size |-> size, alignment |-> alignment]
           /\ \A q \in DOMAIN live : q # p /\ q # user => live'[q] = live[q]
      BY <2>1
    <2>13. \A q \in DOMAIN live : q # p => Intact(q)' /\ LiveBlock(q)' = LiveBlock(q)
      BY <2>11, <2>12, StillIntact
    <2>14. LiveBlock(user)' = block
      BY <2>10 DEF LiveBlock
    <2>15. HeadersIntact'
      <3>1. Intact(user)'
        <4>1. header'[user] # Garbage
          BY <2>10 DEF Headers, Garbage
        <4> QED
          BY <2>2, <2>10, <2>12, <4>1 DEF Intact, block_size_for_order
      <3>2. \A q \in DOMAIN live' : Intact(q)'
        BY <2>12, <2>13, <3>1
      <3> QED
        BY <3>2 DEF HeadersIntact, Intact
    <2>16. Blocks' \subseteq (Blocks \ Taken(p, target)) \cup {block}
      <3>1. Blocks' = FreeIn(free_lists') \cup {LiveBlock(q)' : q \in DOMAIN live'}
        BY BlocksAre DEF Blocks, FreeBlocks, FreeIn, LiveBlocks, LiveBlock
      <3>2. ASSUME NEW q \in DOMAIN live' PROVE LiveBlock(q)' \in (Blocks \ Taken(p, target)) \cup {block}
        <4>1. CASE q = user
          BY <2>14, <4>1
        <4>2. CASE q # user
          <5>1. q \in DOMAIN live /\ q # p
            BY <2>12, <4>2
          <5> QED
            BY <2>13, <5>1, OthersNotTaken, LiveShape
        <4> QED
          BY <4>1, <4>2
      <3>3. FreeIn(free_lists') \subseteq Blocks \ Taken(p, target)
        BY <1>5, <1>6, Shape
      <3> QED
        BY <3>1, <3>2, <3>3
    <2>17. NoOverlap'
      <3>1. Apart({block})
        BY DEF Apart
      <3>2. Covered({block}, Taken(p, target))
        <4>1. Extent(block) = Span(base, BlockSizes[target])
          BY <1>4, <1>7, ExtentIs
        <4> QED
          BY <1>6, <4>1 DEF Covered
      <3>3. \A n \in {block} : n[1] % BlockSizes[n[2]] = 0
        BY <1>6
      <3>4. Lists(free_lists')
        BY <1>5, <1>6
      <3> HIDE DEF block
      <3> QED
        BY <1>5, <1>6, <2>16, <3>1, <3>2, <3>3, <3>4, Rearranged
    <2>18. BuddyTypeOK'
      <3>1. free_lists' \in [Orders -> Seq(Units)]
        BY <1>5, <1>6 DEF Lists
      <3>2. DOMAIN live' \subseteq Units
        BY <2>3, <2>12, LiveShape
      <3>3. ASSUME NEW q \in DOMAIN live' PROVE live'[q] \in [size : Sizes, alignment : Alignments]
        <4>1. CASE q = user
          BY <2>12, <4>1
        <4>2. CASE q # user
          BY <2>12, <4>2, LiveShape
        <4> QED
          BY <4>1, <4>2
      <3>4. corrupted' \subseteq DOMAIN live'
        BY <2>1, <2>12 DEF HInv, BuddyTypeOK, Hit
      <3>5. added' \in 0 .. Len(Regions) /\ current' \in Nat /\ panic' \in {"none", "Buddy allocator: double free"}
        BY <1>5 DEF HInv, BuddyTypeOK
      <3> QED
        BY <2>9, <3>1, <3>2, <3>3, <3>4, <3>5 DEF BuddyTypeOK
    <2>19. Tracked'
      <3> SUFFICES ASSUME NEW u \in Units, header'[u].state = "LIVE" PROVE u \in DOMAIN live'
        BY DEF Tracked
      <3>1. header'[u] = retired[u]
        <4>1. Garbage.state # "LIVE"
          BY DEF Garbage
        <4> QED
          BY <2>9, <4>1
      <3>2. u # p
        BY <2>8, <3>1
      <3>3. CASE u = user
        BY <2>12, <3>3
      <3>4. CASE u # user
        <4>1. header[u].state = "LIVE"
          BY <2>7, <2>8, <3>1, <3>2, <3>4
        <4> QED
          BY <2>12, <3>2, <4>1 DEF HInv, Tracked
      <3> QED
        BY <3>3, <3>4
    <2>20. Paced'
      BY <1>5 DEF HInv, Paced, region_start
    <2>21. ASSUME Good, alignment = live[p].alignment PROVE Good'
      <3>1. ASSUME NEW b \in Blocks \ Taken(p, target) PROVE b \in Blocks'
        <4>1. Blocks' = FreeIn(free_lists') \cup {LiveBlock(q)' : q \in DOMAIN live'}
          BY BlocksAre DEF Blocks, FreeBlocks, FreeIn, LiveBlocks, LiveBlock
        <4>2. CASE b \in FreeIn(free_lists)
          BY <1>5, <1>6, <4>1, <4>2
        <4>3. CASE b \notin FreeIn(free_lists)
          <5>1. PICK q \in DOMAIN live : b = LiveBlock(q)
            BY <4>3, Shape
          <5>2. q # p
            BY <5>1 DEF Taken
          <5> QED
            BY <2>12, <2>13, <4>1, <5>1, <5>2
        <4> QED
          BY <4>2, <4>3
      <3>2. block \in Blocks'
        <4>1. LiveBlocks' = {LiveBlock(q)' : q \in DOMAIN live'}
          BY DEF LiveBlocks, LiveBlock
        <4>2. user \in DOMAIN live'
          BY <2>12
        <4> HIDE DEF block
        <4>3. block \in LiveBlocks'
          BY <2>14, <4>1, <4>2
        <4> QED
          BY <4>3 DEF Blocks
      <3>3. \A r \in Taken(p, target) : \A u \in Extent(r) : \E n \in {block} : u \in Extent(n)
        <4>1. Extent(block) = Span(base, BlockSizes[target])
          BY <1>4, <1>7, ExtentIs
        <4> QED
          BY <1>6, <4>1
      <3> DEFINE nothing == {}
      <3>4. FreeIn(free_lists') \subseteq FreeIn(free_lists) \cup nothing /\ \A x : x \notin nothing
        BY <1>5, <1>6
      <3>5. \A q \in DOMAIN live' : AtStart(q)'
        <4>1. AtStart(user)'
          BY <1>3, <2>10, <2>12 DEF AtStart
        <4>2. ASSUME NEW q \in DOMAIN live, q # p PROVE AtStart(q)'
          BY <2>11, <2>12, <2>21, <4>2, StillAtStart DEF Good
        <4> QED
          BY <2>12, <4>1, <4>2
      <3>6. corrupted' = {}
        <4>1. ASSUME NEW q \in DOMAIN live, q # p PROVE q \notin Hit({user - 1, p - 1})
          <5>1. p - 1 \in Extent(LiveBlock(p)) /\ LiveBlock(p) \in Taken(p, target)
            BY LiveShape DEF Taken
          <5>2. \E r \in Taken(p, target) : user - 1 \in Extent(r)
            BY <1>6, <2>2
          <5>3. \A u \in {user - 1, p - 1} : \E r \in Taken(p, target) : u \in Extent(r)
            BY <5>1, <5>2
          <5> QED
            BY <1>6, <4>1, <5>3, OthersNotTaken, NotHit
        <4>2. p - 1 \notin Payload(p)
          <5>1. p \in Nat /\ live[p].size \in Nat
            BY LiveShape, RequestAssumption
          <5> QED
            BY <5>1 DEF Payload, Span
        <4>3. user = p => p \notin Hit({user - 1, p - 1})
          BY <4>2 DEF Hit
        <4>4. Hit({user - 1, p - 1}) \subseteq DOMAIN live
          BY DEF Hit
        <4>5. p - 1 \notin Span(user, Min({live[p].size, size}))
          <5>1. {live[p].size, size} \in SUBSET Nat
            BY LiveShape, RequestAssumption
          <5>2. Min({live[p].size, size}) \in Nat /\ Min({live[p].size, size}) <= live[p].size
            BY <5>1, MinIs
          <5> QED
            BY <1>2, <1>3, <1>4, <2>21, <5>2, MovedDown DEF Good
        <4> QED
          BY <2>1, <2>21, <4>1, <4>3, <4>4, <4>5 DEF Good
      <3>7. Blocks \ Taken(p, target) \subseteq Blocks' /\ {block} \subseteq Blocks'
        BY <3>1, <3>2
      <3> HIDE DEF block, nothing
      <3> QED
        BY <1>5, <2>21, <3>3, <3>4, <3>5, <3>6, <3>7, StaysGood
    <2> QED
      BY <2>15, <2>17, <2>18, <2>19, <2>20, <2>21 DEF HInv
  <1> QED
    BY <1>8, <1>9

-----------------------------------------------------------------------------
(* ALLOCATE: the first block of a list, split down to an order.             *)
SplitUp(base, target, order, z) ==
    LET H == HalvesOf(base, target, order)
        R == {<<base, order, 0>>}
        N == H \cup {<<base, target, z>>}
        split == Split(free_lists, base, target, order)
    IN /\ base \in Units /\ base \in Nat /\ base % BlockSizes[target] = 0
       /\ R \subseteq Blocks /\ Apart(N) /\ Covered(N, R)
       /\ \A n \in N : n[1] % BlockSizes[n[2]] = 0
       /\ Extent(<<base, target, z>>) = Span(base, BlockSizes[target])
       /\ Lists(split) /\ FreeIn(split) = (FreeIn(free_lists) \ R) \cup H
       /\ \A o \in Orders : <<base, o, 0>> \notin FreeIn(split)
       /\ \A r \in R : \A u \in Extent(r) : \E n \in N : u \in Extent(n)
       /\ \A o \in target .. order - 1 : \E r \in R : base + BlockSizes[o] \in Extent(r)
       /\ \A x : \A o \in Orders : <<x, o, 0>> \in H /\ o + 1 \in Orders =>
             x \in Nat /\ x % BlockSizes[o] = 0 /\ BuddyOf(x, o) = base
       /\ \A u \in Span(base, BlockSizes[target]) : \E r \in R : u \in Extent(r)
       /\ \A r \in R : Extent(r) \subseteq Usable

(* Splitting gives blocks that make up the one that was split.              *)
LEMMA Splitting ==
    ASSUME HInv, NEW target \in Orders, NEW order \in Orders, target <= order, free_lists[order] # <<>>,
           NEW base, base = Head(free_lists[order]), NEW z
    PROVE  SplitUp(base, target, order, z)
  <1> DEFINE H == HalvesOf(base, target, order)
             R == {<<base, order, 0>>}
             N == H \cup {<<base, target, z>>}
             split == Split(free_lists, base, target, order)
  <1>1. base \in ToSet(free_lists[order])
    <2>1. List(free_lists[order])
      BY Shape, ListsIs
    <2> QED
      BY <2>1, Popped
  <1>2. /\ base \in Nat /\ base \in Units /\ base % BlockSizes[order] = 0
        /\ <<base, order, 0>> \in Blocks /\ Span(base, BlockSizes[order]) \subseteq Usable
        /\ Extent(<<base, order, 0>>) = Span(base, BlockSizes[order])
    BY <1>1, FreeShape
  <1>3. SplitsTo(base, target, order)
    BY <1>2, Halved
  <1>5. base % BlockSizes[target] = 0
    BY <1>3 DEF SplitsTo
  <1>4. \A o \in target .. order - 1 : o \in Orders /\ o # order
    BY Orders_
  <1>6. \A o \in target .. order - 1 : base + BlockSizes[o] \in Nat /\ (base + BlockSizes[o]) % BlockSizes[o] = 0
    BY <1>3 DEF SplitsTo
  <1>7. \A u : u \in Span(base, BlockSizes[order])
                 <=> \/ u \in Span(base, BlockSizes[target])
                     \/ \E o \in target .. order - 1 : u \in Span(base + BlockSizes[o], BlockSizes[o])
    BY <1>3 DEF SplitsTo
  <1>8. /\ \A o \in target .. order - 1 : Span(base + BlockSizes[o], BlockSizes[o]) \cap Span(base, BlockSizes[target]) = {}
        /\ \A o, l \in target .. order - 1 :
              l # o => Span(base + BlockSizes[o], BlockSizes[o]) \cap Span(base + BlockSizes[l], BlockSizes[l]) = {}
    BY <1>3 DEF SplitsTo
  <1>9. \A o \in target .. order - 1 :
           /\ Extent(<<base + BlockSizes[o], o, 0>>) = Span(base + BlockSizes[o], BlockSizes[o])
           /\ base + BlockSizes[o] \in Span(base + BlockSizes[o], BlockSizes[o])
    BY <1>4, <1>6, ExtentIs
  <1>10. Extent(<<base, target, z>>) = Span(base, BlockSizes[target])
    BY <1>2, ExtentIs
  <1>11. H = {<<base + BlockSizes[o], o, 0>> : o \in target .. order - 1}
    BY DEF HalvesOf
  <1>12. Apart(N)
    <2>1. ASSUME NEW a \in H, NEW b \in H, a # b PROVE Extent(a) \cap Extent(b) = {}
      <3>1. PICK o \in target .. order - 1 : a = <<base + BlockSizes[o], o, 0>>
        BY <1>11
      <3>2. PICK l \in target .. order - 1 : b = <<base + BlockSizes[l], l, 0>>
        BY <1>11
      <3>3. l # o
        BY <2>1, <3>1, <3>2
      <3>4. Extent(a) = Span(base + BlockSizes[o], BlockSizes[o]) /\ Extent(b) = Span(base + BlockSizes[l], BlockSizes[l])
        BY <1>9, <3>1, <3>2
      <3> QED
        BY <1>8, <3>3, <3>4
    <2>2. ASSUME NEW a \in H PROVE Extent(a) \cap Extent(<<base, target, z>>) = {}
      <3>1. PICK o \in target .. order - 1 : a = <<base + BlockSizes[o], o, 0>>
        BY <1>11
      <3>2. Extent(a) = Span(base + BlockSizes[o], BlockSizes[o])
        BY <1>9, <3>1
      <3> QED
        BY <1>8, <1>10, <3>2
    <2> HIDE DEF H
    <2> QED
      BY <2>1, <2>2 DEF Apart
  <1>13. Covered(N, R)
    <2>1. ASSUME NEW n \in N, NEW u \in Extent(n) PROVE u \in Span(base, BlockSizes[order])
      <3>1. CASE n = <<base, target, z>>
        BY <1>7, <1>10, <2>1, <3>1
      <3>2. CASE n \in H
        <4>1. PICK o \in target .. order - 1 : n = <<base + BlockSizes[o], o, 0>>
          BY <1>11, <3>2
        <4>2. u \in Span(base + BlockSizes[o], BlockSizes[o])
          BY <1>9, <2>1, <4>1
        <4> QED
          BY <1>7, <4>2
      <3> QED
        BY <2>1, <3>1, <3>2
    <2> QED
      BY <1>2, <2>1 DEF Covered
  <1>14. \A n \in N : n[1] % BlockSizes[n[2]] = 0
    BY <1>5, <1>6, <1>11
  <1>15. R \subseteq Blocks
    BY <1>2
  <1>16. ASSUME NEW n \in N, n[1] \in Extent(n) PROVE n \notin Blocks \ R
    <2>1. \E r \in R : n[1] \in Extent(r)
      BY <1>13, <1>16 DEF Covered
    <2>2. Apart(Blocks)
      BY Shape
    <2> HIDE DEF R, N
    <2> QED
      BY <1>15, <1>16, <2>1, <2>2, ReplacedFresh
  <1>17. ASSUME NEW o \in target .. order - 1
         PROVE  base + BlockSizes[o] \in Units /\ base + BlockSizes[o] \notin ToSet(free_lists[o])
    <2> DEFINE n == <<base + BlockSizes[o], o, 0>>
    <2>1. n \in N /\ n[1] \in Extent(n)
      BY <1>9, <1>11
    <2>2. n \notin R
      BY <1>4
    <2>3. n \notin FreeIn(free_lists)
      BY <1>16, <2>1, <2>2, Shape
    <2>4. base + BlockSizes[o] \notin ToSet(free_lists[o])
      BY <1>4, <2>3, FreeInIs
    <2>5. base + BlockSizes[o] \in Span(base, BlockSizes[order])
      BY <1>7, <1>9
    <2> QED
      BY <1>2, <2>4, <2>5, Shape
  <1>18. Lists(split) /\ FreeIn(split) = (FreeIn(free_lists) \ R) \cup H
    <2>1. Lists(free_lists)
      BY Shape
    <2> QED
      BY <1>17, <2>1, SplitBlock
  <1>19. ASSUME NEW k \in Orders PROVE <<base, k, 0>> \notin FreeIn(split)
    <2>1. <<base, k, 0>> \notin H
      <3>1. \A o \in target .. order - 1 : BlockSizes[o] \in Nat \ {0}
        BY <1>4, Sizes_
      <3>2. \A o \in target .. order - 1 : base + BlockSizes[o] # base
        BY <1>2, <3>1
      <3> QED
        BY <1>11, <3>2
    <2>2. <<base, k, 0>> \notin Blocks \ R
      <3>1. base \in Extent(<<base, k, 0>>) /\ base \in Extent(<<base, order, 0>>)
        BY <1>2, ExtentIs
      <3>2. Apart(Blocks) /\ \E r \in R : base \in Extent(r)
        BY <3>1, Shape
      <3> HIDE DEF R
      <3> QED
        BY <1>15, <3>1, <3>2, ReplacedFresh
    <2>3. FreeIn(free_lists) \subseteq Blocks
      BY Shape
    <2> QED
      BY <1>18, <2>1, <2>2, <2>3
  <1>20. \A u \in Span(base, BlockSizes[target]) : \E r \in R : u \in Extent(r)
    BY <1>2, <1>7
  <1>21. \A r \in R : Extent(r) \subseteq Usable
    BY <1>2
  <1>22. \A r \in R : \A u \in Extent(r) : \E n \in N : u \in Extent(n)
    <2> SUFFICES ASSUME NEW u \in Span(base, BlockSizes[order]) PROVE \E n \in N : u \in Extent(n)
      BY <1>2
    <2>1. CASE u \in Span(base, BlockSizes[target])
      BY <1>10, <2>1
    <2>2. CASE \E o \in target .. order - 1 : u \in Span(base + BlockSizes[o], BlockSizes[o])
      BY <1>9, <1>11, <2>2
    <2> QED
      BY <1>7, <2>1, <2>2
  <1>23. \A o \in target .. order - 1 : \E r \in R : base + BlockSizes[o] \in Extent(r)
    BY <1>2, <1>7, <1>9
  <1>24. ASSUME NEW x, NEW o \in Orders, <<x, o, 0>> \in H, o + 1 \in Orders
         PROVE  x \in Nat /\ x % BlockSizes[o] = 0 /\ BuddyOf(x, o) = base
    <2>1. o \in target .. order - 1 /\ x = base + BlockSizes[o]
      BY <1>11, <1>24
    <2>2. x \in Nat /\ x % BlockSizes[o] = 0
      BY <1>6, <2>1
    <2>3. o \in 0 .. order - 1 /\ o <= order
      BY <2>1, Orders_
    <2>4. Buddy_(base, o) = x
      BY <1>2, <2>1, <2>3, Halves
    <2>5. base % BlockSizes[o] = 0
      BY <1>2, <2>3, AlignedBelow
    <2> QED
      BY <1>2, <1>24, <2>2, <2>4, <2>5, BuddyOfBuddy
  <1> HIDE DEF R, N, H, split
  <1>25. SplitUp(base, target, order, z)
    BY <1>2, <1>5, <1>10, <1>12, <1>13, <1>14, <1>15, <1>18, <1>19, <1>20, <1>21, <1>22, <1>23, <1>24 DEF SplitUp, H, R, N, split
  <1> QED
    BY <1>25

(* allocate: a block is taken, split, and given a header.                   *)
LEMMA AllocateStep ==
    ASSUME HInv, NEW size \in Sizes, NEW alignment \in Alignments, Allocate(size, alignment)
    PROVE  HInv' /\ (OrdinaryUse /\ Good => Good')
  <1>1. PICK target : target = order_for_block_size(next_block_size(size + alignment + 1))
    OBVIOUS
  <1> DEFINE found == {o \in target .. MAX_ORDER : free_lists[o] # <<>>}
  <1>2. PICK order : order = Min(found)
    OBVIOUS
  <1>3. PICK base : base = Head(free_lists[order])
    OBVIOUS
  <1>4. PICK user : user = align_up(base + 1, alignment)
    OBVIOUS
  <1>5. target \in Orders
    BY <1>1, OrderForIsOrder
  <1>6. order \in Orders /\ target <= order /\ free_lists[order] # <<>>
    <2>1. found # {}
      BY <1>1 DEF Allocate
    <2>2. found \in SUBSET Nat
      BY <1>5, Orders_
    <2>3. order \in found
      BY <1>2, <2>1, <2>2, MinIs
    <2> QED
      BY <1>5, <2>3, PageAssumption DEF Orders
  <1>7. \A z : SplitUp(base, target, order, z)
    BY <1>3, <1>5, <1>6, Splitting
  <1>8. /\ base \in Units /\ base \in Nat
        /\ {<<base, order, 0>>} \subseteq Blocks
        /\ Lists(Split(free_lists, base, target, order))
        /\ FreeIn(Split(free_lists, base, target, order))
             = (FreeIn(free_lists) \ {<<base, order, 0>>}) \cup HalvesOf(base, target, order)
        /\ \A o \in Orders : <<base, o, 0>> \notin FreeIn(Split(free_lists, base, target, order))
        /\ \A u \in Span(base, BlockSizes[target]) : \E r \in {<<base, order, 0>>} : u \in Extent(r)
        /\ \A r \in {<<base, order, 0>>} : Extent(r) \subseteq Usable
    BY <1>7 DEF SplitUp
  <1>9. ASSUME NEW z
        PROVE  /\ Apart(HalvesOf(base, target, order) \cup {<<base, target, z>>})
               /\ Covered(HalvesOf(base, target, order) \cup {<<base, target, z>>}, {<<base, order, 0>>})
               /\ \A n \in HalvesOf(base, target, order) \cup {<<base, target, z>>} : n[1] % BlockSizes[n[2]] = 0
               /\ \A r \in {<<base, order, 0>>} : \A u \in Extent(r) :
                     \E n \in HalvesOf(base, target, order) \cup {<<base, target, z>>} : u \in Extent(n)
    BY <1>7 DEF SplitUp
  <1>10. UNCHANGED <<added, current, panic>>
    BY DEF Allocate
  <1>11. Split(free_lists, base, target, order) =
            [o \in Orders |-> IF o = order THEN Tail(free_lists[o])
                              ELSE IF o \in target .. order - 1
                              THEN <<base + block_size_for_order(o)>> \o free_lists[o] ELSE free_lists[o]]
    BY DEF Split
  <1>12. CASE user + size > base + BlockSizes[target]
    <2>1. /\ free_lists' = push_free_block(Split(free_lists, base, target, order), base, target)
          /\ corrupted' \subseteq corrupted \cup DOMAIN live
          /\ UNCHANGED <<header, live>>
      BY <1>1, <1>2, <1>3, <1>4, <1>11, <1>12 DEF Allocate, Hit, block_size_for_order
    <2>2. Lists(free_lists') /\ FreeIn(free_lists') = FreeIn(Split(free_lists, base, target, order)) \cup {<<base, target, 0>>}
      BY <1>5, <1>8, <2>1, PushedBlock
    <2>3. BuddyTypeOK'
      <3>1. free_lists' \in [Orders -> Seq(Units)]
        BY <2>2 DEF Lists
      <3> QED
        BY <1>10, <2>1, <3>1 DEF HInv, BuddyTypeOK
    <2>4. Tracked' /\ Paced' /\ HeadersIntact'
      BY <1>10, <2>1 DEF HInv, Tracked, Paced, region_start, HeadersIntact
    <2>5. Blocks' \subseteq (Blocks \ {<<base, order, 0>>}) \cup (HalvesOf(base, target, order) \cup {<<base, target, 0>>})
      <3>1. Blocks' = FreeIn(free_lists') \cup {LiveBlock(q)' : q \in DOMAIN live'}
        BY BlocksAre DEF Blocks, FreeBlocks, FreeIn, LiveBlocks, LiveBlock
      <3>2. ASSUME NEW q \in DOMAIN live' PROVE LiveBlock(q)' \in Blocks \ {<<base, order, 0>>}
        <4>1. q \in DOMAIN live /\ LiveBlock(q)' = LiveBlock(q)
          BY <2>1 DEF LiveBlock
        <4>2. q # 0 /\ LiveBlock(q) \in Blocks
          BY <4>1, LiveShape
        <4> QED
          BY <4>1, <4>2 DEF LiveBlock
      <3> QED
        BY <1>8, <2>2, <3>1, <3>2, Shape
    <2>6. NoOverlap'
      BY <1>8, <1>9, <1>10, <2>2, <2>5, Rearranged
    <2>7. ~OrdinaryUse
      <3> SUFFICES ASSUME OrdinaryUse PROVE FALSE
        OBVIOUS
      <3>1. Span(base, BlockSizes[target]) \subseteq Usable /\ base % BlockSizes[target] = 0
        <4>1. base % BlockSizes[target] = 0
          BY <1>7 DEF SplitUp
        <4> QED
          BY <1>8, <4>1
      <3>2. target # MAX_ORDER /\ BlockSizes[target] < INT_LIMIT
        BY <1>5, <1>8, <3>1, InMemory
      <3> QED
        BY <1>1, <1>4, <1>5, <1>8, <1>12, <3>2, Enough
    <2> QED
      BY <2>3, <2>4, <2>6, <2>7 DEF HInv
  <1>13. CASE ~(user + size > base + BlockSizes[target])
    <2> DEFINE block == <<base, target, user>>
               stores == [header EXCEPT ![user] = Header(base, target, size, alignment)]
    <2>1. /\ free_lists' = Split(free_lists, base, target, order)
          /\ header' = Filled(stores, user, size)
          /\ live' = [p \in DOMAIN live \cup {user} |->
                         IF p = user THEN [size |-> size, alignment |-> alignment] ELSE live[p]]
          /\ corrupted' = corrupted \cup Hit({base + BlockSizes[o] : o \in target .. order - 1} \cup {user - 1})
      <3>1. ~(user + size > base + block_size_for_order(target))
        BY <1>13 DEF block_size_for_order
      <3>2. corrupted' = corrupted \cup Hit({base + block_size_for_order(o) : o \in target .. order - 1} \cup {user - 1})
        BY <1>1, <1>2, <1>3, <1>4, <3>1 DEF Allocate
      <3>3. {base + block_size_for_order(o) : o \in target .. order - 1} = {base + BlockSizes[o] : o \in target .. order - 1}
        BY DEF block_size_for_order
      <3>4. /\ free_lists' = Split(free_lists, base, target, order)
            /\ header' = Filled(stores, user, size)
            /\ live' = [p \in DOMAIN live \cup {user} |->
                           IF p = user THEN [size |-> size, alignment |-> alignment] ELSE live[p]]
        BY <1>1, <1>2, <1>3, <1>4, <1>11, <3>1 DEF Allocate
      <3> QED
        BY <3>2, <3>3, <3>4
    <2>2. /\ user \in Nat /\ user % alignment = 0 /\ base < user
          /\ user - 1 \in Span(base, BlockSizes[target]) /\ user \in Span(base, BlockSizes[target])
          /\ Span(user, size) \subseteq Span(base, BlockSizes[target])
          /\ Span(user - 1, size + 1) \subseteq Span(base, BlockSizes[target])
          /\ user - 1 \notin Span(user, size)
      BY <1>4, <1>5, <1>8, <1>13, Placement
    <2>3. user \in Units
      BY <1>8, <2>2, Shape
    <2>4. Header(base, target, size, alignment) \in Headers
      BY <1>5, <1>8 DEF Header, Headers
    <2>5. header \in [Units -> Headers \cup {Garbage}]
      BY DEF HInv, BuddyTypeOK
    <2>6. /\ stores \in [Units -> Headers \cup {Garbage}] /\ stores[user] = Header(base, target, size, alignment)
          /\ \A u \in Units : u # user => stores[u] = header[u]
      BY <2>3, <2>4, <2>5
    <2> HIDE DEF stores
    <2>7. /\ header' \in [Units -> Headers \cup {Garbage}]
          /\ \A u \in Units : header'[u] = IF u - 1 \in Span(user, size) THEN Garbage ELSE stores[u]
      BY <2>1, <2>6, FilledIs
    <2>8. /\ header'[user] \in Headers /\ header'[user].block_base = base /\ header'[user].order = target
          /\ header'[user].requested_size = size /\ header'[user].requested_alignment = alignment
      <3>1. header'[user] = Header(base, target, size, alignment)
        BY <2>2, <2>3, <2>6, <2>7
      <3> QED
        BY <2>4, <3>1 DEF Header
    <2>9. ASSUME NEW q \in DOMAIN live PROVE q # user /\ header'[q] = header[q] /\ LiveBlock(q) \notin {<<base, order, 0>>}
      <3>1. q \in Units /\ q \in Nat /\ q # 0
        BY LiveShape
      <3>2. LiveBlock(q) \notin {<<base, order, 0>>}
        BY <3>1 DEF LiveBlock
      <3>3. \A u \in Int : u \in Span(base, BlockSizes[target]) => q # u + 1
        BY <1>8, <3>2, HeaderUndisturbed
      <3>4. q # user
        <4>1. user - 1 \in Int /\ (user - 1) + 1 = user
          BY <2>2
        <4> QED
          BY <2>2, <3>3, <4>1
      <3>5. q - 1 \notin Span(user, size)
        <4>1. q - 1 \in Int /\ (q - 1) + 1 = q
          BY <3>1
        <4> QED
          BY <2>2, <3>3, <4>1
      <3> QED
        BY <2>6, <2>7, <3>1, <3>2, <3>4, <3>5
    <2>10. DOMAIN live' = DOMAIN live \cup {user}
           /\ live'[user] = [size |-> size, alignment |-> alignment]
           /\ \A q \in DOMAIN live : q # user => live'[q] = live[q]
      BY <2>1
    <2>11. \A q \in DOMAIN live : Intact(q)' /\ LiveBlock(q)' = LiveBlock(q)
      BY <2>9, <2>10, StillIntact
    <2>12. LiveBlock(user)' = block
      BY <2>8 DEF LiveBlock
    <2>13. HeadersIntact'
      <3>1. Intact(user)'
        <4>1. header'[user] # Garbage
          BY <2>8 DEF Headers, Garbage
        <4> QED
          BY <2>2, <2>8, <2>10, <4>1 DEF Intact, block_size_for_order
      <3>2. \A q \in DOMAIN live' : Intact(q)'
        BY <2>10, <2>11, <3>1
      <3> QED
        BY <3>2 DEF HeadersIntact, Intact
    <2>14. Blocks' \subseteq (Blocks \ {<<base, order, 0>>}) \cup (HalvesOf(base, target, order) \cup {block})
      <3>1. Blocks' = FreeIn(free_lists') \cup {LiveBlock(q)' : q \in DOMAIN live'}
        BY BlocksAre DEF Blocks, FreeBlocks, FreeIn, LiveBlocks, LiveBlock
      <3>2. ASSUME NEW q \in DOMAIN live' PROVE LiveBlock(q)' \in (Blocks \ {<<base, order, 0>>}) \cup {block}
        <4>1. CASE q = user
          BY <2>12, <4>1
        <4>2. CASE q # user
          BY <2>9, <2>10, <2>11, <4>2, LiveShape
        <4> QED
          BY <4>1, <4>2
      <3>3. FreeIn(free_lists') \subseteq (Blocks \ {<<base, order, 0>>}) \cup HalvesOf(base, target, order)
        BY <1>8, <2>1, Shape
      <3> QED
        BY <3>1, <3>2, <3>3
    <2>15. NoOverlap'
      <3>1. Lists(free_lists')
        BY <1>8, <2>1
      <3> QED
        BY <1>8, <1>9, <1>10, <2>14, <3>1, Rearranged
    <2>16. BuddyTypeOK'
      <3>1. free_lists' \in [Orders -> Seq(Units)]
        BY <1>8, <2>1 DEF Lists
      <3>2. DOMAIN live' \subseteq Units
        BY <2>3, <2>10, LiveShape
      <3>3. ASSUME NEW q \in DOMAIN live' PROVE live'[q] \in [size : Sizes, alignment : Alignments]
        <4>1. CASE q = user
          BY <2>10, <4>1
        <4>2. CASE q # user
          BY <2>10, <4>2, LiveShape
        <4> QED
          BY <4>1, <4>2
      <3>4. corrupted' \subseteq DOMAIN live'
        BY <2>1, <2>10 DEF HInv, BuddyTypeOK, Hit
      <3>5. added' \in 0 .. Len(Regions) /\ current' \in Nat /\ panic' \in {"none", "Buddy allocator: double free"}
        BY <1>10 DEF HInv, BuddyTypeOK
      <3> QED
        BY <2>7, <3>1, <3>2, <3>3, <3>4, <3>5 DEF BuddyTypeOK
    <2>17. Tracked'
      <3> SUFFICES ASSUME NEW u \in Units, header'[u].state = "LIVE" PROVE u \in DOMAIN live'
        BY DEF Tracked
      <3>1. header'[u] = stores[u]
        <4>1. Garbage.state # "LIVE"
          BY DEF Garbage
        <4> QED
          BY <2>7, <4>1
      <3>2. CASE u = user
        BY <2>10, <3>2
      <3>3. CASE u # user
        <4>1. header[u].state = "LIVE"
          BY <2>6, <3>1, <3>3
        <4> QED
          BY <2>10, <4>1 DEF HInv, Tracked
      <3> QED
        BY <3>2, <3>3
    <2>18. Paced'
      BY <1>10 DEF HInv, Paced, region_start
    <2>19. ASSUME Good PROVE Good'
      <3> DEFINE taken == {<<base, order, 0>>}
                 halves == HalvesOf(base, target, order)
      <3>1. Blocks' = FreeIn(free_lists') \cup {LiveBlock(q)' : q \in DOMAIN live'}
        BY BlocksAre DEF Blocks, FreeBlocks, FreeIn, LiveBlocks, LiveBlock
      <3>2. FreeIn(free_lists') = (FreeIn(free_lists) \ taken) \cup halves
        BY <1>8, <2>1
      <3> HIDE DEF halves
      <3>3. Blocks \ taken \subseteq Blocks'
        <4>1. \A q \in DOMAIN live : LiveBlock(q) \in Blocks'
          BY <2>10, <2>11, <3>1
        <4> QED
          BY <3>1, <3>2, <4>1, Shape
      <3>4. halves \cup {block} \subseteq Blocks'
        <4>1. user \in DOMAIN live'
          BY <2>10
        <4> HIDE DEF block
        <4> QED
          BY <2>12, <3>1, <3>2, <4>1
      <3>5. \A r \in taken : \A u \in Extent(r) : \E n \in halves \cup {block} : u \in Extent(n)
        BY <1>9 DEF halves
      <3>6. FreeIn(free_lists') \subseteq FreeIn(free_lists) \cup halves
        BY <3>2
      <3>7. \A x : \A o \in Orders : <<x, o, 0>> \in halves /\ o + 1 \in Orders =>
                /\ x \in Nat /\ x % BlockSizes[o] = 0
                /\ <<BuddyOf(x, o), o, 0>> \notin FreeIn(free_lists')
        <4>1. \A x : \A o \in Orders : <<x, o, 0>> \in halves /\ o + 1 \in Orders =>
                 x \in Nat /\ x % BlockSizes[o] = 0 /\ BuddyOf(x, o) = base
          BY <1>7 DEF SplitUp, halves
        <4>2. \A o \in Orders : <<base, o, 0>> \notin FreeIn(free_lists')
          BY <1>8, <2>1
        <4> QED
          BY <4>1, <4>2
      <3>8. \A q \in DOMAIN live' : AtStart(q)'
        <4>1. AtStart(user)'
          BY <1>4, <2>8, <2>10 DEF AtStart
        <4>2. \A q \in DOMAIN live : AtStart(q)'
          BY <2>9, <2>10, <2>19, StillAtStart DEF Good
        <4> QED
          BY <2>10, <4>1, <4>2
      <3>9. corrupted' = {}
        <4> DEFINE links == {base + BlockSizes[o] : o \in target .. order - 1}
        <4>1. \A u \in links : \E r \in taken : u \in Extent(r)
          BY <1>7 DEF SplitUp
        <4>2. \E r \in taken : user - 1 \in Extent(r)
          BY <1>8, <2>2
        <4>3. \A u \in links \cup {user - 1} : \E r \in taken : u \in Extent(r)
          BY <4>1, <4>2
        <4>4. \A q \in DOMAIN live : LiveBlock(q) \notin taken
          BY <2>9
        <4> HIDE DEF taken, links
        <4>5. taken \subseteq Blocks
          BY <1>8 DEF taken
        <4>6. \A q \in DOMAIN live : q \notin Hit(links \cup {user - 1})
          BY <4>3, <4>4, <4>5, NotHit
        <4>7. Hit(links \cup {user - 1}) \subseteq DOMAIN live
          BY DEF Hit
        <4>8. corrupted' = corrupted \cup Hit(links \cup {user - 1})
          BY <2>1 DEF links
        <4> QED
          BY <2>19, <4>6, <4>7, <4>8 DEF Good
      <3> HIDE DEF taken, block
      <3> QED
        BY <1>10, <2>19, <3>3, <3>4, <3>5, <3>6, <3>7, <3>8, <3>9, StaysGood
    <2> QED
      BY <2>13, <2>15, <2>16, <2>17, <2>18, <2>19 DEF HInv
  <1> QED
    BY <1>12, <1>13

-----------------------------------------------------------------------------
(* add_region.                                                              *)
LEMMA AddRegionStep ==
    ASSUME HInv, AddRegion
    PROVE  HInv' /\ (Good => Good')
  <1>1. /\ added < Len(Regions) /\ ~Carving /\ added' = added + 1 /\ current' = region_start(added + 1)
        /\ UNCHANGED <<free_lists, header, live, corrupted, panic>>
    BY DEF AddRegion
  <1>2. added \in Nat /\ added \in 0 .. Len(Regions) /\ current \in Nat /\ Len(Regions) \in Nat
    BY Position
  <1>3. added' \in 0 .. Len(Regions) /\ added + 1 \in 1 .. Len(Regions)
    BY <1>1, <1>2
  <1>4. region_start(added + 1) \in Nat /\ region_start(added + 1) % PAGE = 0
    BY <1>3, Region
  <1>5. Usable' = Usable
    <2>1. \A u : u \in Usable <=> \E i \in 1 .. added : u \in UsablePages(i) /\ (i = added => u < current)
      BY <1>2, UsableIs
    <2>2. \A u : u \in Usable' <=> \E i \in 1 .. added + 1 : u \in UsablePages(i) /\ (i = added + 1 => u < region_start(added + 1))
      <3>1. Usable' = UsableAt(added + 1, region_start(added + 1))
        BY <1>1, UsableNow
      <3> QED
        BY <3>1 DEF UsableAt
    <2>3. \A u : u \in UsablePages(added + 1) => ~(u < region_start(added + 1))
      BY <1>3, <1>4, Region DEF UsablePages
    <2>4. added > 0 => \A u : u \in UsablePages(added) => u < current
      <3> SUFFICES ASSUME added > 0, NEW u \in UsablePages(added) PROVE u < current
        OBVIOUS
      <3>1. ~(current < region_end(added))
        BY <1>1 DEF Carving
      <3>2. region_end(added) \in Nat /\ region_start(added) \in Nat
        BY <1>2, Region
      <3> QED
        BY <1>2, <3>1, <3>2 DEF UsablePages
    <2>5. \A i \in 1 .. added + 1 : i \in 1 .. added \/ i = added + 1
      BY <1>2
    <2>6. \A i \in 1 .. added : i \in 1 .. added + 1 /\ i # added + 1 /\ added > 0
      BY <1>2
    <2>7. ASSUME NEW u, u \in Usable' PROVE u \in Usable
      <3>1. PICK i \in 1 .. added + 1 : u \in UsablePages(i) /\ (i = added + 1 => u < region_start(added + 1))
        BY <2>2, <2>7
      <3>2. i \in 1 .. added
        BY <2>3, <2>5, <3>1
      <3>3. i = added => u < current
        BY <2>4, <2>6, <3>1, <3>2
      <3> QED
        BY <2>1, <3>1, <3>2, <3>3
    <2>8. ASSUME NEW u, u \in Usable PROVE u \in Usable'
      BY <2>1, <2>2, <2>6, <2>8
    <2> QED
      BY <2>7, <2>8
  <1>10. Blocks' = Blocks
    <2>1. FreeBlocks' = FreeBlocks
      BY <1>1, FreeNow
    <2>2. LiveBlocks' = LiveBlocks
      BY <1>1 DEF LiveBlocks
    <2> QED
      BY <2>1, <2>2 DEF Blocks
  <1>6. NoOverlap'
    BY <1>1, <1>5, <1>10 DEF HInv, NoOverlap
  <1>7. BuddyTypeOK'
    BY <1>1, <1>3, <1>4 DEF HInv, BuddyTypeOK
  <1>8. HeadersIntact' /\ Tracked'
    BY <1>1 DEF HInv, HeadersIntact, Tracked
  <1>9. Paced'
    <2>1. region_start(added + 1) <= region_start(added + 1)
      BY <1>4
    <2> QED
      BY <1>1, <1>4, <2>1 DEF Paced, region_start
  <1>11. ASSUME Good PROVE Good'
    <2>1. RegionsManaged' /\ NoFreeBuddies'
      BY <1>1, <1>5, <1>10, <1>11 DEF Good, RegionsManaged, NoFreeBuddies
    <2>2. CarvedWell'
      <3>1. PICK start \in Nat : start = region_start(added + 1)
        BY <1>4
      <3>2. \A x : x \notin start .. start - 1
        BY <3>1
      <3>3. region_start(added)' = start /\ current' = start
        BY <1>1, <3>1 DEF region_start
      <3>4. region_start(added)' .. current' - 1 = {}
        BY <3>2, <3>3
      <3> QED
        BY <3>4 DEF CarvedWell, region_start
    <2>3. (\A p \in DOMAIN live : AtStart(p))' /\ corrupted' = {}
      BY <1>1, <1>11 DEF Good, AtStart
    <2> QED
      BY <2>1, <2>2, <2>3 DEF Good
  <1> QED
    BY <1>6, <1>7, <1>8, <1>9, <1>11 DEF HInv

(* The block that add_region cuts off.                                      *)
LEMMA OrderForAtMost ==
    ASSUME NEW m \in Orders
    PROVE  order_for_block_size(BlockSizes[m]) \in Orders /\ order_for_block_size(BlockSizes[m]) <= m
  <1> DEFINE T == {o \in Orders : \/ o = MAX_ORDER
                                  \/ block_size_for_order(o) >= INT_LIMIT
                                  \/ block_size_for_order(o) >= BlockSizes[m]}
  <1>1. T \in SUBSET Nat
    BY Orders_
  <1>2. m \in T
    <2>1. BlockSizes[m] >= BlockSizes[m]
      BY Sizes_
    <2> QED
      BY <2>1 DEF block_size_for_order
  <1>3. Min(T) <= m
    BY <1>1, <1>2, MinIs
  <1>4. order_for_block_size(BlockSizes[m]) = Min(T)
    BY DEF order_for_block_size
  <1> QED
    BY <1>3, <1>4, OrderForIsOrder

(* The block that add_region carves next is aligned and inside the region.  *)
LEMMA CutOff ==
    ASSUME HInv, Carving
    PROVE  LET m == Max({o \in Orders : BlockFits(o)}) IN
           /\ m \in Orders /\ current % BlockSizes[m] = 0 /\ BlockSizes[m] \in Nat \ {0}
           /\ Span(current, BlockSizes[m]) \subseteq UsablePages(added)
           /\ (current + BlockSizes[m]) % PAGE = 0
           /\ \A o \in Orders : BlockFits(o) => o <= m
  <1> DEFINE T == {o \in Orders : BlockFits(o)}
  <1>1. added \in 1 .. Len(Regions) /\ current \in Nat /\ current < region_end(added)
    BY Position DEF Carving
  <1>2. current % PAGE = 0 /\ region_start(added) <= current
    BY <1>1 DEF HInv, Paced, Carving
  <1>3. PICK end \in Nat : end = region_end(added) /\ end % PAGE = 0 /\ region_start(added) \in Nat
    BY <1>1, Region
  <1>4. PICK rest \in Nat \ {0} : rest = end - current /\ rest = region_end(added) - current
    BY <1>1, <1>3
  <1>5. PAGE \in Nat \ {0} /\ BlockSizes[0] = PAGE /\ 0 \in Orders
    BY PageAssumption, Sizes_, Orders_
  <1>6. PAGE <= rest
    <2>1. current <= end
      BY <1>1, <1>3
    <2>2. (end - current) % PAGE = 0
      BY <1>1, <1>2, <1>3, <1>5, <2>1, MultipleSum
    <2>3. rest % PAGE = 0
      BY <1>4, <2>2
    <2>4. PICK q \in Nat : rest = PAGE * q
      BY <1>4, <1>5, <2>3, Multiples
    <2>5. q # 0
      BY <1>4, <1>5, <2>4
    <2>6. q >= 1
      BY <2>5
    <2>7. PAGE * 1 <= PAGE * q
      BY <1>5, <2>6
    <2> QED
      BY <1>5, <2>4, <2>7
  <1>7. 0 \in T
    BY <1>2, <1>4, <1>5, <1>6 DEF BlockFits, block_size_for_order
  <1>8. T \subseteq Orders /\ T # {}
    BY <1>7
  <1>9. Max(T) \in T
    BY <1>8, MaxIs
  <1>10. PICK m \in Orders : m = Max(T) /\ BlockSizes[m] <= rest /\ current % BlockSizes[m] = 0
    BY <1>4, <1>9 DEF BlockFits, block_size_for_order
  <1>11. PICK s \in Nat \ {0} : s = BlockSizes[m]
    BY Sizes_
  <1>12. Span(current, s) \subseteq UsablePages(added)
    <2>1. PICK start \in Nat : start = region_start(added) /\ start <= current
      BY <1>2, <1>3
    <2>2. current + s <= end
      BY <1>1, <1>4, <1>10, <1>11
    <2>3. current .. current + s - 1 \subseteq start .. end - 1
      BY <1>1, <1>11, <2>1, <2>2, SMTT(30)
    <2> QED
      BY <1>3, <2>1, <2>3 DEF Span, UsablePages
  <1>13. s % PAGE = 0
    <2>1. s % s = 0
      BY Multiples, s * 1 = s
    <2>2. 0 <= m
      BY Orders_
    <2> QED
      BY <1>5, <1>11, <2>1, <2>2, AlignedBelow
  <1>14. (current + s) % PAGE = 0
    BY <1>1, <1>2, <1>5, <1>13, MultipleSum
  <1>15. \A o \in Orders : BlockFits(o) => o <= m
    BY <1>8, <1>10, MaxIs
  <1> QED
    BY <1>10, <1>11, <1>12, <1>14, <1>15

(* add_region: one more block is carved.                                    *)
LEMMA AddBlockStep ==
    ASSUME HInv, AddBlock
    PROVE  HInv' /\ (OrdinaryUse /\ Good => Good')
  <1>1. PICK m : m = Max({o \in Orders : BlockFits(o)})
    OBVIOUS
  <1>2. PICK s : s = BlockSizes[m]
    OBVIOUS
  <1>3. PICK t : t = order_for_block_size(s)
    OBVIOUS
  <1> DEFINE block == <<current, t, 0>>
  <1>4. /\ Carving /\ free_lists' = push_free_block(free_lists, current, t) /\ current' = current + s
        /\ UNCHANGED <<header, live, corrupted, added, panic>>
    BY <1>1, <1>2, <1>3 DEF AddBlock, block_size_for_order
  <1>5. m \in Orders /\ current % s = 0 /\ s \in Nat \ {0} /\ Span(current, s) \subseteq UsablePages(added) /\ (current + s) % PAGE = 0
        /\ \A o \in Orders : BlockFits(o) => o <= m
    BY <1>1, <1>2, <1>4, CutOff
  <1>6. added \in 1 .. Len(Regions) /\ added \in 0 .. Len(Regions) /\ added \in 1 .. added /\ current \in Nat
    BY <1>4, Position DEF Carving
  <1>7. t \in Orders /\ t <= m
    BY <1>2, <1>3, <1>5, OrderForAtMost
  <1>8. current % BlockSizes[t] = 0
    BY <1>2, <1>5, <1>6, <1>7, AlignedBelow
  <1>9. Extent(block) = Span(current, BlockSizes[t]) /\ current \in Span(current, BlockSizes[t]) /\ current \in Span(current, s)
    BY <1>2, <1>5, <1>6, <1>7, ExtentIs
  <1>10. Span(current, BlockSizes[t]) \subseteq Span(current, s)
    BY <1>2, <1>5, <1>6, <1>7, <1>8, <1>9, Nested
  <1>11. \A u \in Span(current, s) : u \in Nat /\ current <= u /\ u < current + s
    BY <1>5, <1>6 DEF Span
  <1>12. \A u : u \in Usable <=> \E i \in 1 .. added : u \in UsablePages(i) /\ (i = added => u < current)
    BY <1>6, UsableIs
  <1>13. \A i \in 1 .. added : i \in 1 .. Len(Regions)
    BY <1>6, RegionCount
  <1>14. \A u \in Span(current, s) : u \notin Usable
    <2> SUFFICES ASSUME NEW u \in Span(current, s), u \in Usable PROVE FALSE
      OBVIOUS
    <2>1. PICK i \in 1 .. added : u \in UsablePages(i) /\ (i = added => u < current)
      BY <1>12
    <2>2. i # added
      BY <1>6, <1>11, <2>1
    <2>3. UsablePages(i) \cap UsablePages(added) = {}
      BY <1>6, <1>13, <2>2, RegionsApart
    <2> QED
      BY <1>5, <2>1, <2>3
  <1>15. current \in Units
    <2>1. UsablePages(added) \subseteq Units
      BY <1>6, Region
    <2> QED
      BY <1>5, <1>9, <2>1
  <1>16. \A b \in Blocks : Extent(block) \cap Extent(b) = {}
    <2>1. \A b \in Blocks : Extent(b) \subseteq Usable
      BY Shape
    <2> QED
      BY <1>9, <1>10, <1>14, <2>1
  <1>17. block \notin FreeIn(free_lists)
    <2>1. block \notin Blocks
      BY <1>9, <1>16
    <2> QED
      BY <2>1, Shape
  <1>18. Lists(free_lists') /\ FreeIn(free_lists') = FreeIn(free_lists) \cup {block}
    <2>1. Lists(free_lists)
      BY Shape
    <2> QED
      BY <1>4, <1>7, <1>15, <1>17, <2>1, PushedBlock
  <1>19. Blocks' = Blocks \cup {block}
    <2>1. Blocks' = FreeIn(free_lists') \cup LiveBlocks'
      BY FreeNow DEF Blocks
    <2>2. LiveBlocks' = LiveBlocks
      BY <1>4 DEF LiveBlocks
    <2>3. Blocks = FreeIn(free_lists) \cup LiveBlocks
      BY FreeNow DEF Blocks
    <2> QED
      BY <1>18, <2>1, <2>2, <2>3
  <1>20. Apart(Blocks')
    <2>1. Apart(Blocks)
      BY Shape
    <2> HIDE DEF block
    <2> QED
      BY <1>16, <1>19, <2>1 DEF Apart
  <1>21. \A u : u \in Usable' <=> \E i \in 1 .. added : u \in UsablePages(i) /\ (i = added => u < current + s)
    <2>1. Usable' = UsableAt(added, current + s)
      BY <1>4, UsableNow
    <2> QED
      BY <2>1 DEF UsableAt
  <1>22. Usable \subseteq Usable'
    <2>1. \A u \in Usable : u \in Nat
      BY Shape
    <2>2. \A u \in Nat : u < current => u < current + s
      BY <1>5, <1>6
    <2> QED
      BY <1>12, <1>21, <2>1, <2>2
  <1>23. Extent(block) \subseteq Usable'
    <2>1. \A u \in Span(current, s) : u \in Usable'
      BY <1>5, <1>6, <1>11, <1>21
    <2> QED
      BY <1>9, <1>10, <2>1
  <1>24. NoOverlap'
    <2>1. ASSUME NEW b \in Blocks' PROVE Extent(b) \subseteq Usable' /\ b[1] % BlockSizes[b[2]] = 0
      <3>1. CASE b \in Blocks
        BY <1>22, <3>1, Shape
      <3>2. CASE b = block
        <4>1. b[1] = current /\ b[2] = t
          BY <3>2
        <4> QED
          BY <1>8, <1>23, <3>2, <4>1
      <3> QED
        BY <1>19, <2>1, <3>1, <3>2
    <2> QED
      BY <1>18, <1>20, <2>1 DEF NoOverlap, Apart, Lists, block_size_for_order
  <1>25. BuddyTypeOK'
    <2>1. free_lists' \in [Orders -> Seq(Units)]
      BY <1>18 DEF Lists
    <2>2. current' \in Nat
      BY <1>4, <1>5, <1>6
    <2> QED
      BY <1>4, <2>1, <2>2 DEF HInv, BuddyTypeOK
  <1>26. HeadersIntact' /\ Tracked'
    BY <1>4 DEF HInv, HeadersIntact, Tracked
  <1>27. Paced'
    <2>1. PICK start \in Nat : start = region_start(added) /\ start <= current
      <3>1. region_start(added) \in Nat /\ region_start(added) <= current
        BY <1>4, <1>6, Region DEF HInv, Paced, Carving
      <3> QED
        BY <3>1
    <2>2. start <= current + s
      BY <1>5, <1>6, <2>1
    <2> QED
      BY <1>4, <1>5, <2>1, <2>2 DEF Paced, region_start
  <1>28. ASSUME OrdinaryUse, Good PROVE Good'
    <2>1. t = m
      BY <1>2, <1>3, <1>5, <1>6, <1>28, InRegion, OrderForBlock
    <2>2. Extent(block) = Span(current, s)
      BY <1>2, <1>9, <2>1
    <2>3. RegionsManaged'
      <3>1. ASSUME NEW u \in Usable' PROVE \E b \in Blocks' : u \in Extent(b)
        <4>1. CASE u \in Usable
          <5>1. PICK b \in Blocks : u \in Extent(b)
            BY <1>28, <4>1 DEF Good, RegionsManaged
          <5> QED
            BY <1>19, <5>1
        <4>2. CASE u \notin Usable
          <5>1. u \in UsablePages(added) /\ u < current + s /\ ~(u < current)
            BY <1>6, <1>12, <1>21, <3>1, <4>2
          <5>2. u \in Nat
            BY <1>6, <5>1, Region, UnitsAreNat
          <5>3. u \in Span(current, s)
            BY <1>5, <1>6, <5>1, <5>2 DEF Span
          <5> QED
            BY <1>19, <2>2, <5>3
        <4> QED
          BY <4>1, <4>2
      <3>2. Usable' \subseteq UNION {Extent(b) : b \in Blocks'}
        BY <3>1
      <3> QED
        BY <3>2 DEF RegionsManaged
    <2>4. ASSUME m + 1 \in Orders PROVE <<BuddyOf(current, m), m, 0>> \notin FreeIn(free_lists')
      <3> SUFFICES ASSUME <<BuddyOf(current, m), m, 0>> \in FreeIn(free_lists') PROVE FALSE
        OBVIOUS
      <3>1. PICK d : d = BuddyOf(current, m)
        OBVIOUS
      <3>2. /\ d \in Nat /\ d # current /\ BuddyOf(d, m) = current
            /\ d = current + s \/ current = d + s
            /\ current = d + s => d % BlockSizes[m + 1] = 0
        BY <1>2, <1>5, <1>6, <2>4, <3>1, BuddyOfBuddy
      <3>3. d \in ToSet(free_lists[m])
        <4>1. <<d, m, 0>> \in FreeIn(free_lists)
          BY <1>18, <3>1, <3>2
        <4> QED
          BY <1>5, <4>1, FreeInIs
      <3>4. d % BlockSizes[m] = 0 /\ Span(d, s) \subseteq Usable /\ d \in Span(d, s)
        BY <1>2, <1>5, <3>2, <3>3, FreeShape, ExtentIs
      <3>5. \A u \in Usable : \E i \in 1 .. Len(Regions) : u \in UsablePages(i)
        BY <1>12, <1>13
      <3>6. PICK l \in Nat : l = BlockSizes[m + 1] /\ l = s + s
        <4>1. BlockSizes[m + 1] = 2 * s
          BY <1>2, <1>5, <2>4, Sizes_
        <4> QED
          BY <1>5, <4>1
      <3>7. CASE d = current + s
        <4>1. current % l = 0
          <5>1. d = BuddyOf(d, m) + s => BuddyOf(d, m) % BlockSizes[m + 1] = 0
            BY <1>2, <1>5, <2>4, <3>2, <3>4, BuddyOfBuddy
          <5> QED
            BY <3>2, <3>6, <3>7, <5>1
        <4>2. \A u \in Span(current, l) : u \in Span(current, s) \/ u \in Span(d, s)
          BY <1>5, <1>6, <3>6, <3>7 DEF Span
        <4>3. \A u \in Span(current, l) : \E i \in 1 .. Len(Regions) : u \in UsablePages(i)
          BY <1>5, <1>6, <3>4, <3>5, <4>2
        <4>4. Span(current, l) \subseteq UsablePages(added)
          BY <1>5, <1>6, <1>9, <1>28, <2>4, <3>6, <4>1, <4>3, OneRegion
        <4>5. d \in Span(current, l)
          BY <1>5, <1>6, <3>6, <3>7 DEF Span
        <4>6. PICK i \in 1 .. added : d \in UsablePages(i) /\ (i = added => d < current)
          BY <1>12, <3>4
        <4>7. i = added
          BY <1>6, <1>13, <4>4, <4>5, <4>6, RegionsApart
        <4> QED
          BY <1>5, <1>6, <3>7, <4>6, <4>7
      <3>8. CASE current = d + s
        <4>1. d % l = 0
          BY <3>2, <3>6, <3>8
        <4>2. \A u \in Span(d, l) : u \in Span(d, s) \/ u \in Span(current, s)
          BY <1>5, <3>2, <3>6, <3>8 DEF Span
        <4>3. \A u \in Span(d, l) : \E i \in 1 .. Len(Regions) : u \in UsablePages(i)
          BY <1>5, <1>6, <3>4, <3>5, <4>2
        <4>4. PICK i \in 1 .. added : d \in UsablePages(i)
          BY <1>12, <3>4
        <4>5. Span(d, l) \subseteq UsablePages(i)
          BY <1>13, <1>28, <2>4, <3>2, <3>6, <4>1, <4>3, <4>4, OneRegion
        <4>6. current \in Span(d, l) /\ d + l - 1 \in Span(d, l) /\ d \in Span(d, l)
          BY <1>5, <3>2, <3>6, <3>8 DEF Span
        <4>7. i = added
          <5>1. current \in UsablePages(i) /\ current \in UsablePages(added)
            BY <1>5, <1>9, <4>5, <4>6
          <5> QED
            BY <1>6, <1>13, <5>1, RegionsApart
        <4>8. PICK start \in Nat, end \in Nat : start = region_start(added) /\ end = region_end(added)
          BY <1>6, Region
        <4>9. d + l - 1 < end /\ start <= d
          BY <4>5, <4>6, <4>7, <4>8 DEF UsablePages
        <4>10. d + l <= end /\ d \in start .. current - 1
          BY <1>5, <3>2, <3>6, <3>8, <4>9
        <4>11. d + l <= current
          BY <1>4, <1>28, <2>4, <3>6, <4>1, <4>8, <4>10 DEF Good, CarvedWell
        <4> QED
          BY <1>5, <3>2, <3>6, <3>8, <4>11
      <3> QED
        BY <3>2, <3>7, <3>8
    <2>5. NoFreeBuddies'
      <3>1. FreeIn(free_lists') \subseteq FreeIn(free_lists) \cup {block}
        BY <1>18
      <3>2. \A x : \A o \in Orders : <<x, o, 0>> \in {block} /\ o + 1 \in Orders =>
               /\ x \in Nat /\ x % BlockSizes[o] = 0
               /\ <<BuddyOf(x, o), o, 0>> \notin FreeIn(free_lists')
        BY <1>2, <1>5, <1>6, <2>1, <2>4
      <3> HIDE DEF block
      <3> QED
        BY <1>28, <3>1, <3>2, StillNoBuddies DEF Good
    <2>6. CarvedWell'
      <3>1. PICK start \in Nat, end \in Nat : start = region_start(added) /\ end = region_end(added)
        BY <1>6, Region
      <3>2. ASSUME NEW o \in Orders, NEW x \in start .. current + s - 1, x % BlockSizes[o] = 0, x + BlockSizes[o] <= end
            PROVE  x + BlockSizes[o] <= current + s
        <4>1. PICK r \in Nat \ {0} : r = BlockSizes[o]
          BY Sizes_
        <4>2. x \in Nat /\ x < current + s /\ start <= x
          BY <1>5, <1>6, <3>1
        <4>3. CASE x < current
          <5>1. x \in start .. current - 1
            BY <1>6, <4>2, <4>3
          <5>2. x + r <= current
            BY <1>4, <1>28, <3>1, <3>2, <4>1, <5>1 DEF Good, CarvedWell
          <5> QED
            BY <1>5, <1>6, <4>1, <4>2, <5>2
        <4>4. CASE current <= x
          <5>1. x \in Span(current, s) /\ x \in Span(x, r) /\ x + r - 1 \in Span(x, r)
            BY <1>5, <1>6, <4>1, <4>2, <4>4 DEF Span
          <5>2. o \in Nat /\ m \in Nat
            BY <1>5, Orders_
          <5>3. CASE o <= m
            <6>1. Span(x, r) \subseteq Span(current, s)
              BY <1>2, <1>5, <1>6, <3>2, <4>1, <4>2, <5>1, <5>3, Nested
            <6>2. x + r - 1 \in Span(current, s)
              BY <5>1, <6>1
            <6> QED
              BY <1>5, <1>6, <4>1, <4>2, <6>2 DEF Span
          <5>4. CASE m < o
            <6>1. Span(current, s) \subseteq Span(x, r)
              <7>1. m <= o
                BY <5>2, <5>4
              <7>2. m \in Orders /\ s = BlockSizes[m] /\ r = BlockSizes[o] /\ current \in Nat /\ x \in Nat
                    /\ current % s = 0 /\ x % r = 0
                BY <1>2, <1>5, <1>6, <3>2, <4>1, <4>2
              <7> QED
                BY <5>1, <7>1, <7>2, Nested
            <6>2. current \in Span(x, r)
              BY <1>9, <6>1
            <6>3. x = current
              BY <1>6, <4>2, <4>4, <6>2 DEF Span
            <6>4. r <= end - current
              BY <1>6, <3>1, <3>2, <4>1, <6>3
            <6>5. BlockFits(o)
              BY <3>1, <3>2, <4>1, <6>3, <6>4 DEF BlockFits, block_size_for_order
            <6> QED
              BY <1>5, <5>2, <5>4, <6>5
          <5> QED
            BY <5>2, <5>3, <5>4
        <4> QED
          BY <1>6, <4>2, <4>3, <4>4
      <3>3. PICK next : next = current + s
        OBVIOUS
      <3>4. CarvedAt(next)
        <4> SUFFICES ASSUME NEW o \in Orders, NEW x \in region_start(added) .. next - 1,
                            x % BlockSizes[o] = 0, x + BlockSizes[o] <= region_end(added)
                     PROVE  x + BlockSizes[o] <= next
          BY DEF CarvedAt
        <4>1. x \in start .. current + s - 1 /\ x + BlockSizes[o] <= end
          BY <1>5, <1>6, <3>1, <3>3
        <4> QED
          BY <3>2, <3>3, <4>1
      <3> QED
        BY <1>4, <3>3, <3>4, CarvedThen
    <2>7. (\A p \in DOMAIN live : AtStart(p))' /\ corrupted' = {}
      BY <1>4, <1>28 DEF Good, AtStart
    <2> QED
      BY <2>3, <2>5, <2>6, <2>7 DEF Good
  <1> QED
    BY <1>24, <1>25, <1>26, <1>27, <1>28 DEF HInv

(* Nothing is managed at first.                                             *)
LEMMA InitStep ==
    ASSUME BuddyInit
    PROVE  HInv /\ Good
  <1>1. DOMAIN live = {} /\ added = 0 /\ current = 0 /\ corrupted = {} /\ panic = "none"
    BY DEF BuddyInit
  <1>2. \A o \in Orders : free_lists[o] = <<>>
    BY DEF BuddyInit
  <1>3. BuddyTypeOK
    <2>1. free_lists \in [Orders -> Seq(Units)]
      BY DEF BuddyInit
    <2>2. header \in [Units -> Headers \cup {Garbage}]
      BY DEF BuddyInit
    <2>3. added \in 0 .. Len(Regions)
      BY <1>1, RegionCount
    <2> QED
      BY <1>1, <2>1, <2>2, <2>3 DEF BuddyTypeOK
  <1>4. Blocks = {}
    <2>1. \A o \in Orders : ToSet(free_lists[o]) = {}
      BY <1>2 DEF ToSet
    <2>2. FreeIn(free_lists) = {}
      BY <2>1, FreeInIs
    <2>3. LiveBlocks = {}
      BY <1>1 DEF LiveBlocks
    <2> QED
      BY <2>2, <2>3, FreeNow DEF Blocks
  <1>5. NoOverlap
    <2>1. \A o \in Orders : IsInjective(free_lists[o])
      BY <1>2 DEF IsInjective
    <2> QED
      BY <1>4, <2>1 DEF NoOverlap
  <1>6. HeadersIntact
    BY <1>1 DEF HeadersIntact
  <1>7. Tracked
    BY DEF BuddyInit, Tracked, Garbage
  <1>8. Paced
    BY <1>1 DEF Paced
  <1>9. Good
    <2>1. RegionsManaged
      <3>1. 1 .. added = {}
        BY <1>1
      <3> QED
        BY <3>1 DEF RegionsManaged, Usable
    <2>2. NoFreeBuddies
      BY <1>2 DEF NoFreeBuddies, ToSet
    <2>3. CarvedWell
      BY <1>1 DEF CarvedWell, Carving
    <2> QED
      BY <1>1, <2>1, <2>2, <2>3 DEF Good
  <1> QED
    BY <1>3, <1>5, <1>6, <1>7, <1>8, <1>9 DEF HInv

(* No two buddies are free, so that an aligned range of free units lies in  *)
(* one free block: of the smallest free block in the range, the buddy would *)
(* be free too.                                                             *)
LEMMA Merged ==
    ASSUME HInv, NoFreeBuddies
    PROVE  FullyMerged
  <1> DEFINE free == UNION {Extent(b) : b \in FreeBlocks}
  <1>1. ASSUME NEW u \in free
        PROVE  \E k \in Orders : \E x \in Nat :
                  /\ x \in ToSet(free_lists[k]) /\ x % BlockSizes[k] = 0 /\ <<x, k, 0>> \in FreeBlocks
                  /\ Extent(<<x, k, 0>>) = Span(x, BlockSizes[k]) /\ u \in Span(x, BlockSizes[k])
    <2>1. PICK b \in FreeBlocks : u \in Extent(b)
      OBVIOUS
    <2>2. PICK k \in Orders : \E x \in ToSet(free_lists[k]) : b = <<x, k, 0>>
      BY Shape, FreeInIs
    <2>3. PICK x \in ToSet(free_lists[k]) : b = <<x, k, 0>>
      BY <2>2
    <2>4. x \in Nat /\ x % BlockSizes[k] = 0 /\ Extent(<<x, k, 0>>) = Span(x, BlockSizes[k])
      BY FreeShape
    <2> QED
      BY <2>1, <2>3, <2>4
  <1> SUFFICES ASSUME NEW o \in Orders, NEW base \in free, base % BlockSizes[o] = 0,
                      Span(base, BlockSizes[o]) \subseteq free,
                      \A b \in FreeBlocks : ~(Span(base, BlockSizes[o]) \subseteq Extent(b))
               PROVE  FALSE
    BY DEF FullyMerged, block_size_for_order
  <1>2. base \in Nat
    <2>1. PICK k \in Orders, x \in Nat : base \in Span(x, BlockSizes[k])
      BY <1>1
    <2>2. BlockSizes[k] \in Nat
      BY Sizes_
    <2> QED
      BY <2>1, <2>2 DEF Span
  <1>3. ASSUME NEW k \in Orders, NEW x \in Nat, x % BlockSizes[k] = 0, <<x, k, 0>> \in FreeBlocks,
               Extent(<<x, k, 0>>) = Span(x, BlockSizes[k]),
               NEW u \in Span(base, BlockSizes[o]), u \in Span(x, BlockSizes[k])
        PROVE  k < o /\ Span(x, BlockSizes[k]) \subseteq Span(base, BlockSizes[o])
    <2>1. k \in Nat /\ o \in Nat
      BY Orders_
    <2>2. ~(o <= k)
      <3> SUFFICES ASSUME o <= k PROVE FALSE
        OBVIOUS
      <3>1. Span(base, BlockSizes[o]) \subseteq Span(x, BlockSizes[k])
        BY <1>2, <1>3, Nested
      <3> QED
        BY <1>3, <3>1
    <2>3. k <= o /\ k < o
      BY <2>1, <2>2
    <2> QED
      BY <1>2, <1>3, <2>3, Nested
  <1> DEFINE T == {k \in Orders : \E x \in Nat, u \in Span(base, BlockSizes[o]) :
                     /\ x \in ToSet(free_lists[k]) /\ x % BlockSizes[k] = 0 /\ <<x, k, 0>> \in FreeBlocks
                     /\ Extent(<<x, k, 0>>) = Span(x, BlockSizes[k]) /\ u \in Span(x, BlockSizes[k])}
  <1>4. \A u \in Span(base, BlockSizes[o]) : \E k \in T : \E x \in Nat :
           /\ x \in ToSet(free_lists[k]) /\ x % BlockSizes[k] = 0 /\ <<x, k, 0>> \in FreeBlocks
           /\ Extent(<<x, k, 0>>) = Span(x, BlockSizes[k]) /\ u \in Span(x, BlockSizes[k])
    BY <1>1
  <1>5. T \in SUBSET Nat /\ T # {}
    <2>1. base \in Span(base, BlockSizes[o])
      BY <1>2, ExtentIs
    <2>2. T # {}
      BY <1>4, <2>1
    <2> QED
      BY <2>2, Orders_
  <1>6. PICK k \in T : \A j \in T : k <= j
    BY <1>5, LowestExists
  <1>7. PICK x \in Nat, u \in Span(base, BlockSizes[o]) :
           /\ x \in ToSet(free_lists[k]) /\ x % BlockSizes[k] = 0 /\ <<x, k, 0>> \in FreeBlocks
           /\ Extent(<<x, k, 0>>) = Span(x, BlockSizes[k]) /\ u \in Span(x, BlockSizes[k])
    OBVIOUS
  <1>8. k \in Orders /\ T \subseteq Orders
    OBVIOUS
  <1> HIDE DEF T
  <1>9. k < o /\ Span(x, BlockSizes[k]) \subseteq Span(base, BlockSizes[o])
    BY <1>3, <1>7, <1>8
  <1>10. k + 1 \in Orders /\ k + 1 <= o /\ k \in Nat
    <2>1. k \in Nat /\ o \in Nat
      BY <1>8, Orders_
    <2>2. k + 1 \in 0 .. o
      BY <1>9, <2>1
    <2> QED
      BY <2>1, <2>2, Orders_
  <1>11. PICK whole \in Nat : whole = MergedBase(x, k + 1) /\ whole % BlockSizes[k + 1] = 0
    BY <1>10, AroundUnit
  <1>12. PICK d : d = BuddyOf(x, k) /\ d = Buddy_(x, k) /\ d \in Nat
    BY <1>7, <1>8, <1>10, BuddyOfBuddy
  <1>13. /\ d % BlockSizes[k] = 0 /\ MergedBase(x, k) = x
         /\ \A v : v \in Span(whole, BlockSizes[k + 1]) <=> v \in Span(x, BlockSizes[k]) \/ v \in Span(d, BlockSizes[k])
    <2>1. MergedBase(x, k) = x
      <3>1. k <= k
        BY <1>10
      <3> QED
        BY <1>7, <1>8, <3>1, AlignedBelow
    <2> QED
      <3>1. /\ Buddy_(x, k) % BlockSizes[k] = 0
            /\ \A v : v \in Span(MergedBase(x, k + 1), BlockSizes[k + 1])
                        <=> v \in Span(MergedBase(x, k), BlockSizes[k]) \/ v \in Span(Buddy_(x, k), BlockSizes[k])
        BY <1>8, <1>10, BuddyBlock
      <3> QED
        BY <1>11, <1>12, <2>1, <3>1
  <1>14. x \in Span(x, BlockSizes[k]) /\ d \in Span(d, BlockSizes[k])
    BY <1>8, <1>12, ExtentIs
  <1>15. Span(whole, BlockSizes[k + 1]) \subseteq Span(base, BlockSizes[o])
    <2>1. x \in Span(whole, BlockSizes[k + 1]) /\ x \in Span(base, BlockSizes[o])
      BY <1>9, <1>13, <1>14
    <2> QED
      BY <1>2, <1>10, <1>11, <2>1, Nested, ZenonT(40)
  <1>16. d \in Span(whole, BlockSizes[k + 1]) /\ d \in Span(base, BlockSizes[o])
    BY <1>13, <1>14, <1>15
  <1>17. PICK j \in T, y \in Nat :
            /\ y \in ToSet(free_lists[j]) /\ y % BlockSizes[j] = 0 /\ <<y, j, 0>> \in FreeBlocks
            /\ Extent(<<y, j, 0>>) = Span(y, BlockSizes[j]) /\ d \in Span(y, BlockSizes[j])
    BY <1>4, <1>16
  <1>18. j \in Orders /\ j \in Nat /\ k <= j
    BY <1>6, <1>8, <1>17, Orders_
  <1>19. CASE j = k
    <2>1. MergedBase(d, k) = d /\ MergedBase(d, k) = y
      BY <1>8, <1>12, <1>13, <1>14, <1>17, <1>19, InBlock
    <2>2. BuddyOf(x, k) \in ToSet(free_lists[k])
      BY <1>12, <1>17, <1>19, <2>1
    <2> QED
      BY <1>7, <1>8, <1>10, <2>2 DEF NoFreeBuddies
  <1>20. CASE k < j
    <2>1. k + 1 <= j
      BY <1>10, <1>18, <1>20
    <2>2. Span(whole, BlockSizes[k + 1]) \subseteq Span(y, BlockSizes[j])
      BY <1>10, <1>11, <1>16, <1>17, <1>18, <2>1, Nested, ZenonT(40)
    <2>3. x \in Extent(<<y, j, 0>>) /\ x \in Extent(<<x, k, 0>>)
      BY <1>7, <1>13, <1>14, <1>17, <2>2
    <2>4. <<y, j, 0>> # <<x, k, 0>>
      BY <1>10, <1>18, <1>20
    <2>5. <<y, j, 0>> \in Blocks /\ <<x, k, 0>> \in Blocks
      BY <1>7, <1>17 DEF Blocks
    <2>6. Extent(<<y, j, 0>>) \cap Extent(<<x, k, 0>>) = {}
      BY <2>4, <2>5, Shape DEF Apart
    <2> QED
      BY <2>3, <2>6
  <1> QED
    BY <1>10, <1>18, <1>19, <1>20

(* Every step of the heap.                                                  *)
LEMMA HeapStep ==
    ASSUME HInv, BuddyNext
    PROVE  HInv' /\ (OrdinaryUse /\ Good => Good')
  <1>1. CASE AddRegion
    BY <1>1, AddRegionStep
  <1>2. CASE AddBlock
    BY <1>2, AddBlockStep
  <1>3. CASE \E size \in Sizes, alignment \in Alignments : Allocate(size, alignment)
    BY <1>3, AllocateStep
  <1>4. CASE \E p \in DOMAIN live : Free(p)
    BY <1>4, FreeStep
  <1>5. CASE \E p \in DOMAIN live, size \in Sizes, alignment \in Alignments : Resize(p, size, alignment)
    <2>1. PICK p \in DOMAIN live, size \in Sizes, alignment \in Alignments : Resize(p, size, alignment)
      BY <1>5
    <2>4. OrdinaryUse => alignment = live[p].alignment
      BY <2>1 DEF Resize, OrdinaryUse
    <2>2. CASE ResizeWithin(p, size, alignment)
      BY <2>2, ResizeWithinStep
    <2>3. CASE ResizeMerge(p, size, alignment)
      BY <2>3, <2>4, ResizeMergeStep
    <2> QED
      BY <2>1, <2>2, <2>3, <2>4 DEF Resize
  <1> QED
    BY <1>1, <1>2, <1>3, <1>4, <1>5 DEF BuddyNext

-----------------------------------------------------------------------------
(* Whatever is added, allocated, freed and resized, with whatever sizes and *)
(* alignments, the invariant holds.                                         *)
THEOREM HeapInvariance == BuddySpec => []HInv
  <1>1. BuddyInit => HInv
    BY InitStep
  <1>2. HInv /\ [BuddyNext]_buddyVars => HInv'
    <2>1. ASSUME HInv, UNCHANGED buddyVars PROVE HInv'
      <3>1. UNCHANGED <<free_lists, header, live, corrupted, added, current>> /\ panic' \in {"none", "Buddy allocator: double free"}
        BY <2>1 DEF buddyVars, HInv, BuddyTypeOK
      <3> QED
        BY <2>1, <3>1, SameHeap
    <2> QED
      BY <2>1, HeapStep
  <1> QED
    BY <1>1, <1>2, PTL DEF BuddySpec

(* add_region, alloc, free and resize never hand out a unit of memory       *)
(* twice, nor one outside the whole pages of the regions, however they are  *)
(* interleaved, and the free lists hold each block once.                    *)
THEOREM BlocksNeverOverlap == BuddySpec => []NoOverlap
  <1>1. HInv => NoOverlap
    BY DEF HInv
  <1> QED
    BY <1>1, HeapInvariance, PTL

(* The header before a pointer stays what ALLOCATE or RESIZE wrote, and the *)
(* memory it was asked for lies behind it in its block.                     *)
THEOREM HeadersStayIntact == BuddySpec => []HeadersIntact
  <1>1. HInv => HeadersIntact
    BY DEF HInv
  <1> QED
    BY <1>1, HeapInvariance, PTL

(* IS_THIS_YOURS answers yes only for pointers that are in use.             *)
THEOREM OnlyOwnPointers == BuddySpec => []OwnershipSound
  <1>1. HInv => OwnershipSound
    BY DEF HInv, Tracked, OwnershipSound, is_this_yours
  <1> QED
    BY <1>1, HeapInvariance, PTL

(* Where no region is as large as the largest block or as an int can count, *)
(* no aligned block lies astride two regions and nobody resizes with        *)
(* another alignment, the heap is sound: besides the above, add_region,     *)
(* splits, merges and growth in place lose no page, freeing merges all      *)
(* there is to merge, and no store hits a payload.                          *)
THEOREM HeapIsSound ==
    ASSUME OrdinaryUse
    PROVE  BuddySpec => []HeapSound
  <1>1. BuddyInit => HInv /\ Good
    BY InitStep
  <1>2. HInv /\ Good /\ [BuddyNext]_buddyVars => HInv' /\ Good'
    <2>1. ASSUME HInv, Good, UNCHANGED buddyVars PROVE HInv' /\ Good'
      <3>1. UNCHANGED <<free_lists, header, live, corrupted, added, current>> /\ panic' \in {"none", "Buddy allocator: double free"}
        BY <2>1 DEF buddyVars, HInv, BuddyTypeOK
      <3> QED
        BY <2>1, <3>1, SameHeap
    <2> QED
      BY <2>1, HeapStep
  <1>3. HInv /\ Good => HeapSound
    <2> SUFFICES ASSUME HInv, Good PROVE HeapSound
      OBVIOUS
    <2>1. FullyMerged
      BY Merged DEF Good
    <2>2. OwnershipSound
      BY DEF HInv, Tracked, OwnershipSound, is_this_yours
    <2> QED
      BY <2>1, <2>2 DEF HInv, Good, HeapSound, PayloadPreserved
  <1> QED
    BY <1>1, <1>2, <1>3, PTL DEF BuddySpec
=============================================================================
