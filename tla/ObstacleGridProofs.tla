------------------------- MODULE ObstacleGridProofs -------------------------
(***************************************************************************)
(* The grid interface's properties, for all grids, frames and points.      *)
(***************************************************************************)
EXTENDS ObstacleGrid, NumberLemmas, SequenceTheorems, TLAPS

(***************************************************************************)
(* Arithmetic of rows and columns, and of unsigned numbers.                *)
(***************************************************************************)
LEMMA ModFacts ==
  ASSUME NEW n \in Int, NEW m \in Nat \ {0}
  PROVE  /\ n % m \in 0 .. m - 1
         /\ n \in 0 .. m - 1 => n % m = n
         /\ n \in Nat => n % m <= n
BY SMT

LEMMA RowMajor ==
  ASSUME NEW w \in Nat \ {0}, NEW h \in Nat \ {0}, NEW x \in 0 .. w - 1, NEW y \in 0 .. h - 1
  PROVE  /\ x + y * w \in 0 .. w * h - 1
         /\ (x + y * w) % w = x
         /\ (x + y * w) \div w = y
<1>1. y * w \in Nat /\ (h - 1) * w \in Nat
  BY SMT
<1>2. y * w <= (h - 1) * w
  BY SMT
<1>3. (h - 1) * w = w * h - w
  BY SMT
<1>4. x + y * w \in 0 .. w * h - 1
  BY <1>1, <1>2, <1>3, SMT
<1>5. (x + y * w) % w = x /\ (x + y * w) \div w = y
  BY SMT
<1>. QED  BY <1>4, <1>5

LEMMA RowOf ==
  ASSUME NEW w \in Nat \ {0}, NEW h \in Nat, NEW k \in 0 .. w * h - 1
  PROVE  k % w \in 0 .. w - 1 /\ k \div w \in 0 .. h - 1
<1>1. k % w \in 0 .. w - 1 /\ k \div w \in Nat
  BY DivType, SMT
<1>2. k = ((k \div w) * w) + (k % w)
  BY SMT
<1>3. k \div w < h
  <2>1. SUFFICES ASSUME k \div w >= h PROVE FALSE
    BY <1>1
  <2>2. (k \div w) * w >= h * w
    BY <1>1, <2>1, SMT
  <2>. QED  BY <1>1, <1>2, <2>2, SMT
<1>. QED  BY <1>1, <1>3

LEMMA WholeDivision ==
  ASSUME NEW x \in Int, NEW r \in Nat \ {0}, NEW c \in Int, c * r <= x, x < c * r + r
  PROVE  x \div r = c
BY SMT

LEMMA QuotWhole ==
  ASSUME NEW n \in Int, NEW d \in Int \ {0}
  PROVE  Quot(n, d) \in Int /\ Rem(n, d) \in Int
<1>1. Magnitude(n) \in Nat /\ Magnitude(d) \in Nat \ {0}
  BY DEF Magnitude
<1>2. Magnitude(n) \div Magnitude(d) \in Nat
  BY <1>1, DivType
<1>3. Quot(n, d) \in Int
  BY <1>2 DEF Quot
<1>4. d * Quot(n, d) \in Int
  BY <1>3, SMT
<1>. QED  BY <1>3, <1>4 DEF Rem

\* Without signs C divides as TLA+ does.
LEMMA QuotNatural ==
  ASSUME NEW n \in Nat, NEW d \in Nat \ {0}
  PROVE  Quot(n, d) = n \div d /\ Rem(n, d) = n % d
<1>1. Magnitude(n) = n /\ Magnitude(d) = d
  BY DEF Magnitude
<1>2. Quot(n, d) = n \div d
  BY <1>1 DEF Quot
<1>3. n = d * (n \div d) + (n % d)
  BY SMT
<1>4. n \div d \in Int /\ n % d \in Int
  BY DivType, SMT
<1>. QED  BY <1>2, <1>3, <1>4, SMT DEF Rem

LEMMA AreaFacts ==
  ASSUME NEW g \in GridType
  PROVE  /\ g.width * g.height \in Nat
         /\ Area(g) \in 0 .. Modulus - 1 /\ Area(g) <= g.width * g.height
         /\ g.width * g.height < Modulus => Area(g) = g.width * g.height
<1>. DEFINE n == g.width * g.height
<1>1. Modulus \in Nat \ {0} /\ g.width \in Nat /\ g.height \in Nat
  BY GridAssumption DEF GridType
<1>2. n \in Nat /\ n \in Int
  BY <1>1, SMT
<1>3. Area(g) = n % Modulus
  BY DEF Area
<1>. HIDE DEF n
<1>4. n < Modulus => n \in 0 .. Modulus - 1
  BY <1>1, <1>2
<1>5. n % Modulus \in 0 .. Modulus - 1 /\ n % Modulus <= n
      /\ (n < Modulus => n % Modulus = n)
  BY <1>1, <1>2, <1>4, ModFacts, Zenon
<1>. QED  BY <1>2, <1>3, <1>5 DEF n

LEMMA ClampedRange ==
  ASSUME NEW i \in 0 .. Modulus - 1, NEW size \in Nat
  PROVE  /\ Clamped(i, size) \in 0 .. Modulus - 1
         /\ size > 0 => Clamped(i, size) \in 0 .. size - 1
         /\ i < size => Clamped(i, size) = i
<1>1. Modulus \in Nat \ {0}
  BY GridAssumption
<1>2. size - 1 \in Int /\ (size > 0 => size - 1 \in Nat)
  OBVIOUS
<1>3. (size - 1) % Modulus \in 0 .. Modulus - 1 /\ (size > 0 => (size - 1) % Modulus <= size - 1)
  BY <1>1, <1>2, ModFacts
<1>. QED  BY <1>1, <1>3 DEF Clamped

-----------------------------------------------------------------------------
(***************************************************************************)
(* What the conversions return.                                            *)
(***************************************************************************)
LEMMA GridFields ==
  ASSUME NEW g \in GridType
  PROVE  /\ g.origin[1] \in Int /\ g.origin[2] \in Int
         /\ g.resolution \in Nat /\ g.width \in 0 .. Modulus - 1 /\ g.height \in 0 .. Modulus - 1
         /\ g.frame \in Frames \union {NoFrame} /\ g.in \in Frames \union {NoFrame}
         /\ g.indexes \in Seq(0 .. Modulus - 1)
<1>1. g.origin \in Vectors
  BY DEF GridType
<1>2. g.origin[1] \in Int /\ g.origin[2] \in Int
  BY <1>1 DEF Vectors
<1>. QED  BY <1>2 DEF GridType

LEMMA UnsignedRange ==
  ASSUME NEW n \in Int
  PROVE  ToUnsigned(n) \subseteq 0 .. Modulus - 1
<1>1. Modulus \in Nat \ {0}
  BY GridAssumption
<1>2. n % Modulus \in 0 .. Modulus - 1
  BY <1>1, ModFacts
<1>. QED  BY <1>1, <1>2 DEF ToUnsigned

LEMMA CellsOfType ==
  ASSUME NEW g \in GridType, NEW p \in Vectors
  PROVE  CellsOf(g, p) \subseteq (0 .. Modulus - 1) \X (0 .. Modulus - 1)
<1>. DEFINE Along(d) == IF g.resolution = 0 THEN {0, Modulus - 1}
                        ELSE ToUnsigned((p[d] - g.origin[d]) \div g.resolution)
<1>1. Modulus \in Nat \ {0}
  BY GridAssumption
<1>2. p[1] \in Int /\ p[2] \in Int
  BY DEF Vectors
<1>3. ASSUME NEW d \in {1, 2}
      PROVE  Along(d) \subseteq 0 .. Modulus - 1
  <2>1. p[d] - g.origin[d] \in Int /\ g.resolution \in Nat
    BY <1>2, GridFields
  <2>2. CASE g.resolution = 0
    BY <1>1, <2>2
  <2>3. CASE g.resolution # 0
    <3>1. (p[d] - g.origin[d]) \div g.resolution \in Int
      BY <2>1, <2>3, SMT
    <3>. QED  BY <2>3, <3>1, UnsignedRange
  <2>. QED  BY <2>2, <2>3
<1>. HIDE DEF Along
<1>4. Along(1) \subseteq 0 .. Modulus - 1 /\ Along(2) \subseteq 0 .. Modulus - 1
  BY <1>3
<1>5. CellsOf(g, p) = Along(1) \X Along(2)
  BY DEF CellsOf, Along
<1>. QED  BY <1>4, <1>5

LEMMA IndexRange ==
  ASSUME NEW g \in GridType, NEW c \in (0 .. Modulus - 1) \X (0 .. Modulus - 1)
  PROVE  /\ IndexOf(g, c) \in 0 .. Modulus - 1
         /\ Cells(g) # {} => IndexOf(g, c) < g.width * g.height
<1>. DEFINE x == Clamped(c[1], g.width)   y == Clamped(c[2], g.height)
<1>1. Modulus \in Nat \ {0}
  BY GridAssumption
<1>2. g.width \in Nat /\ g.height \in Nat
  BY <1>1, GridFields
<1>3. c[1] \in 0 .. Modulus - 1 /\ c[2] \in 0 .. Modulus - 1
  OBVIOUS
<1>4. /\ x \in Nat /\ y \in Nat
      /\ g.width > 0 => x \in 0 .. g.width - 1
      /\ g.height > 0 => y \in 0 .. g.height - 1
  <2>1. x \in 0 .. Modulus - 1 /\ (g.width > 0 => x \in 0 .. g.width - 1)
    BY <1>2, <1>3, ClampedRange, Zenon
  <2>2. y \in 0 .. Modulus - 1 /\ (g.height > 0 => y \in 0 .. g.height - 1)
    BY <1>2, <1>3, ClampedRange, Zenon
  <2>. HIDE DEF x, y
  <2>. QED  BY <1>1, <2>1, <2>2
<1>5. IndexOf(g, c) = (x + y * g.width) % Modulus
  BY DEF IndexOf, PlaceOf
<1>. HIDE DEF x, y
<1>6. x + y * g.width \in Nat
  BY <1>2, <1>4, SMT
<1>7. IndexOf(g, c) \in 0 .. Modulus - 1 /\ IndexOf(g, c) <= x + y * g.width
  <2>. DEFINE n == x + y * g.width
  <2>1. n \in Nat /\ n \in Int
    BY <1>6
  <2>. HIDE DEF n
  <2>2. n % Modulus \in 0 .. Modulus - 1 /\ n % Modulus <= n
    BY <1>1, <2>1, ModFacts, Zenon
  <2>. QED  BY <1>5, <2>2, Zenon DEF n
<1>8. ASSUME Cells(g) # {}
      PROVE  IndexOf(g, c) < g.width * g.height
  <2>1. g.width > 0 /\ g.height > 0
    BY <1>2, <1>8 DEF Cells
  <2>2. x + y * g.width \in 0 .. g.width * g.height - 1
    <3>1. /\ g.width \in Nat \ {0} /\ g.height \in Nat \ {0}
          /\ x \in 0 .. g.width - 1 /\ y \in 0 .. g.height - 1
      BY <1>2, <1>4, <2>1
    <3>. QED  BY <3>1, RowMajor, Zenon
  <2>3. g.width * g.height \in Nat
    BY <1>2, SMT
  <2>. DEFINE n == x + y * g.width   m == g.width * g.height
  <2>4. n \in 0 .. m - 1 /\ m \in Nat /\ IndexOf(g, c) \in Nat /\ IndexOf(g, c) <= n
    BY <1>1, <1>7, <2>2, <2>3
  <2>. HIDE DEF n, m
  <2>5. IndexOf(g, c) < m
    BY <2>4, SMT
  <2>. QED  BY <2>5, Zenon DEF m
<1>. QED  BY <1>7, <1>8

LEMMA DividendFacts ==
  ASSUME NEW g \in GridType, NEW i \in 0 .. Modulus - 1
  PROVE  /\ Dividend(g, i) \in Int
         /\ Cells(g) # {} /\ Countable(g) =>
              /\ Dividend(g, i) \in 0 .. g.width * g.height - 1
              /\ i < g.width * g.height => Dividend(g, i) = i
<1>. DEFINE k == Clamped(i, Area(g))   n == g.width * g.height
<1>1. Modulus \in Nat \ {0} /\ Area(g) \in Nat /\ n \in Nat
  BY GridAssumption, AreaFacts
<1>2. k \in 0 .. Modulus - 1
  BY <1>1, ClampedRange
<1>3. Dividend(g, i) = IF 2 * k < Modulus THEN k ELSE k - Modulus
  BY DEF Dividend, Signed
<1>4. ASSUME Cells(g) # {}, Countable(g)
      PROVE  k \in 0 .. n - 1 /\ 2 * k < Modulus /\ (i < n => k = i)
  <2>1. g.width \in Nat \ {0} /\ g.height \in Nat \ {0}
    BY <1>1, <1>4, GridFields DEF Cells
  <2>2. n > 0
    BY <2>1, SMT
  <2>3. 2 * n < Modulus
    BY <1>4 DEF Countable
  <2>4. n < Modulus
    BY <1>1, <2>3
  <2>5. Area(g) = n
    BY <2>4, AreaFacts
  <2>6. k \in 0 .. n - 1 /\ (i < n => k = i)
    BY <1>1, <2>2, <2>5, ClampedRange
  <2>. HIDE DEF n, k
  <2>. QED  BY <1>1, <2>3, <2>6
<1>. HIDE DEF k, n
<1>5. Dividend(g, i) \in Int
  BY <1>1, <1>2, <1>3
<1>. QED  BY <1>3, <1>4, <1>5, Zenon DEF n

LEMMA WidthSigned ==
  ASSUME NEW g \in GridType
  PROVE  /\ Signed(g.width) \in Int
         /\ Cells(g) # {} /\ Countable(g) =>
              Signed(g.width) = g.width /\ g.width \in Nat \ {0} /\ g.height \in Nat \ {0}
<1>1. Modulus \in Nat \ {0} /\ g.width \in Nat /\ g.height \in Nat
  BY GridAssumption, GridFields
<1>2. Signed(g.width) \in Int
  BY <1>1 DEF Signed
<1>3. ASSUME Cells(g) # {}, Countable(g)
      PROVE  Signed(g.width) = g.width /\ g.width \in Nat \ {0} /\ g.height \in Nat \ {0}
  <2>1. g.width \in Nat \ {0} /\ g.height \in Nat \ {0}
    BY <1>1, <1>3 DEF Cells
  <2>2. g.width <= g.width * g.height /\ g.width * g.height \in Nat
    BY <2>1, SMT
  <2>3. 2 * (g.width * g.height) < Modulus
    BY <1>3 DEF Countable
  <2>4. 2 * g.width < Modulus
    <3>. DEFINE w == g.width   n == g.width * g.height
    <3>1. w \in Nat /\ n \in Nat /\ w <= n /\ 2 * n < Modulus
      BY <2>1, <2>2, <2>3
    <3>. HIDE DEF w, n
    <3>2. 2 * w < Modulus
      BY <1>1, <3>1
    <3>. QED  BY <3>2 DEF w
  <2>. QED  BY <2>1, <2>4 DEF Signed
<1>. QED  BY <1>2, <1>3

(***************************************************************************)
(* index2Cell, wherever C can divide: the cell is a pair of unsigned       *)
(* numbers, and on a grid whose cells an int counts it is the clamped      *)
(* index's row and column.                                                 *)
(***************************************************************************)
LEMMA CellRange ==
  ASSUME NEW g \in GridType, NEW i \in 0 .. Modulus - 1,
         ~ Undivided(Dividend(g, i), Signed(g.width))
  PROVE  /\ CellAt(g, i) \in (0 .. Modulus - 1) \X (0 .. Modulus - 1)
         /\ Cells(g) # {} /\ Countable(g) => CellAt(g, i) \in Cells(g)
         /\ Cells(g) # {} /\ Countable(g) /\ i < g.width * g.height =>
              CellAt(g, i) = NamedCell(g, i)
<1>. DEFINE k == Dividend(g, i)   w == Signed(g.width)
<1>1. Modulus \in Nat \ {0} /\ k \in Int /\ w \in Int /\ w # 0
  BY GridAssumption, DividendFacts, WidthSigned DEF Undivided
<1>2. CellAt(g, i) = <<Rem(k, w) % Modulus, Quot(k, w) % Modulus>>
  BY DEF CellAt
<1>3. Rem(k, w) \in Int /\ Quot(k, w) \in Int
  BY <1>1, QuotWhole
<1>4. Rem(k, w) % Modulus \in 0 .. Modulus - 1 /\ Quot(k, w) % Modulus \in 0 .. Modulus - 1
  BY <1>1, <1>3, ModFacts, Zenon
<1>5. ASSUME Cells(g) # {}, Countable(g)
      PROVE  /\ CellAt(g, i) = NamedCell(g, k)
             /\ CellAt(g, i) \in Cells(g)
             /\ i < g.width * g.height => k = i
  <2>1. /\ w = g.width /\ g.width \in Nat \ {0} /\ g.height \in Nat \ {0}
        /\ k \in 0 .. g.width * g.height - 1 /\ (i < g.width * g.height => k = i)
    BY <1>5, DividendFacts, WidthSigned
  <2>2. g.width \in 0 .. Modulus - 1 /\ g.height \in 0 .. Modulus - 1
    BY GridFields
  <2>3. k % g.width \in 0 .. g.width - 1 /\ k \div g.width \in 0 .. g.height - 1
    BY <2>1, RowOf
  <2>. HIDE DEF k, w
  <2>4. k \in Nat
    BY <2>1, AreaFacts
  <2>5. Quot(k, w) = k \div g.width /\ Rem(k, w) = k % g.width
    BY <2>1, <2>4, QuotNatural
  <2>6. k % g.width \in 0 .. Modulus - 1 /\ k \div g.width \in 0 .. Modulus - 1
    BY <1>1, <2>1, <2>2, <2>3
  <2>7. (k % g.width) % Modulus = k % g.width
    <3>. DEFINE n == k % g.width
    <3>1. n \in 0 .. Modulus - 1 /\ n \in Int
      BY <2>6
    <3>. HIDE DEF n
    <3>2. n % Modulus = n
      BY <1>1, <3>1, ModFacts, Zenon
    <3>. QED  BY <3>2 DEF n
  <2>8. (k \div g.width) % Modulus = k \div g.width
    <3>. DEFINE n == k \div g.width
    <3>1. n \in 0 .. Modulus - 1 /\ n \in Int
      BY <2>6
    <3>. HIDE DEF n
    <3>2. n % Modulus = n
      BY <1>1, <3>1, ModFacts, Zenon
    <3>. QED  BY <3>2 DEF n
  <2>9. CellAt(g, i) = NamedCell(g, k)
    BY <1>2, <2>5, <2>7, <2>8, Zenon DEF NamedCell
  <2>. QED  BY <2>1, <2>3, <2>9 DEF Cells, NamedCell
<1>. HIDE DEF k, w
<1>. QED  BY <1>2, <1>4, <1>5

LEMMA CornerType ==
  ASSUME NEW g \in GridType, NEW c \in Nat \X Nat
  PROVE  CornerOf(g, c) \in Vectors
<1>1. c[1] * g.resolution \in Int /\ c[2] * g.resolution \in Int
  BY GridFields, SMT
<1>. QED  BY <1>1, GridFields DEF CornerOf, Vectors

LEMMA CellNamed ==
  ASSUME NEW g \in GridType, NEW i \in Nat, i < g.width * g.height, g.width # 0
  PROVE  NamedCell(g, i) \in Cells(g) /\ NamedCell(g, i) \in Nat \X Nat
<1>1. g.width \in Nat \ {0} /\ g.height \in Nat
  BY GridAssumption, GridFields
<1>2. g.width * g.height \in Nat
  BY <1>1, SMT
<1>3. i \in 0 .. g.width * g.height - 1
  BY <1>2
<1>4. i % g.width \in 0 .. g.width - 1 /\ i \div g.width \in 0 .. g.height - 1
  BY <1>1, <1>3, RowOf, Zenon
<1>. QED  BY <1>1, <1>3, <1>4 DEF NamedCell, Cells

LEMMA OutcomesType ==
  ASSUME NEW g \in GridType, NEW p \in Vectors
  PROVE  Outcomes(g, p) \subseteq [kind : {"throws", "undefined", "vector"}, diff : Vectors]
<1>. DEFINE Outcome == [kind : {"throws", "undefined", "vector"}, diff : Vectors]
<1>1. Throws \in Outcome /\ OutOfBounds \in Outcome
  BY DEF Throws, OutOfBounds, Vectors
<1>2. ASSUME NEW c \in (0 .. Modulus - 1) \X (0 .. Modulus - 1), g.width # 0
      PROVE  ObstacleAt(g, p, c) \in Outcome
  <2>. DEFINE i == PlaceOf(g, c) + 1
              named == g.indexes[i]
              o == CornerOf(g, NamedCell(g, named))
  <2>1. ObstacleAt(g, p, c) =
          IF c \notin Cells(g) THEN Throws
          ELSE IF i \notin DOMAIN g.indexes THEN OutOfBounds
          ELSE IF named >= Area(g) THEN Throws
          ELSE [kind |-> "vector", diff |-> <<p[1] - o[1], p[2] - o[2]>>]
    BY DEF ObstacleAt, WayTo
  <2>2. CASE i \in DOMAIN g.indexes /\ ~ (named >= Area(g))
    <3>1. named \in 0 .. Modulus - 1
      <4>1. g.indexes \in Seq(0 .. Modulus - 1)
        BY GridFields
      <4>2. i \in 1 .. Len(g.indexes)
        BY <2>2, <4>1, LenProperties
      <4>. HIDE DEF i
      <4>. QED  BY <4>1, <4>2, ElementOfSeq
    <3>. HIDE DEF named
    <3>2. named \in Nat /\ named < g.width * g.height
      BY <2>2, <3>1, GridAssumption, AreaFacts
    <3>3. NamedCell(g, named) \in Nat \X Nat
      BY <3>1, <3>2, <1>2, CellNamed
    <3>4. o \in Vectors
      BY <3>3, CornerType
    <3>. HIDE DEF o, i, named
    <3>5. [kind |-> "vector", diff |-> <<p[1] - o[1], p[2] - o[2]>>] \in Outcome
      BY <3>4 DEF Vectors
    <3>. QED  BY <2>1, <3>5, <1>1
  <2>. HIDE DEF o, i, named
  <2>. QED  BY <1>1, <2>1, <2>2
<1>. QED  BY <1>1, <1>2, CellsOfType DEF Outcomes

(***************************************************************************)
(* A cell of the grid survives the way to its index and back.              *)
(***************************************************************************)
LEMMA ThereAndBack ==
  ASSUME NEW g \in GridType, Cells(g) # {}, Countable(g),
         NEW c \in (0 .. Modulus - 1) \X (0 .. Modulus - 1)
  PROVE  /\ CellAt(g, IndexOf(g, c)) \in Cells(g)
         /\ c \in Cells(g) => CellAt(g, IndexOf(g, c)) = c
<1>. DEFINE x == Clamped(c[1], g.width)   y == Clamped(c[2], g.height)
<1>1. /\ Modulus \in Nat \ {0} /\ g.width \in Nat \ {0} /\ g.height \in Nat \ {0}
      /\ Signed(g.width) = g.width
  BY GridAssumption, WidthSigned
<1>2. c[1] \in 0 .. Modulus - 1 /\ c[2] \in 0 .. Modulus - 1
  OBVIOUS
<1>3. /\ x \in 0 .. g.width - 1 /\ y \in 0 .. g.height - 1
      /\ c[1] < g.width => x = c[1]
      /\ c[2] < g.height => y = c[2]
  <2>1. g.width \in Nat /\ g.height \in Nat /\ g.width > 0 /\ g.height > 0
    BY <1>1
  <2>2. x \in 0 .. g.width - 1 /\ (c[1] < g.width => x = c[1])
    BY <1>2, <2>1, ClampedRange, Zenon
  <2>3. y \in 0 .. g.height - 1 /\ (c[2] < g.height => y = c[2])
    BY <1>2, <2>1, ClampedRange, Zenon
  <2>. QED  BY <2>2, <2>3
<1>4. IndexOf(g, c) = (x + y * g.width) % Modulus
  BY DEF IndexOf, PlaceOf
<1>. HIDE DEF x, y
<1>5. /\ x + y * g.width \in 0 .. g.width * g.height - 1
      /\ (x + y * g.width) % g.width = x
      /\ (x + y * g.width) \div g.width = y
  <2>1. /\ g.width \in Nat \ {0} /\ g.height \in Nat \ {0}
        /\ x \in 0 .. g.width - 1 /\ y \in 0 .. g.height - 1
    BY <1>1, <1>3
  <2>2. x + y * g.width \in 0 .. g.width * g.height - 1
    BY <2>1, RowMajor, Zenon
  <2>3. (x + y * g.width) % g.width = x
    BY <2>1, RowMajor, Zenon
  <2>4. (x + y * g.width) \div g.width = y
    <3>. DEFINE w == g.width   h == g.height
    <3>1. w \in Nat \ {0} /\ h \in Nat \ {0} /\ x \in 0 .. w - 1 /\ y \in 0 .. h - 1
      BY <2>1
    <3>. HIDE DEF w, h
    <3>2. (x + y * w) \div w = y
      BY <3>1, SMT
    <3>. QED  BY <3>2 DEF w
  <2>. QED  BY <2>2, <2>3, <2>4
<1>6. IndexOf(g, c) = x + y * g.width
  <2>1. g.width * g.height \in Nat
    BY <1>1, SMT
  <2>. DEFINE n == x + y * g.width   m == g.width * g.height
  <2>2. n \in 0 .. m - 1 /\ m \in Nat /\ 2 * m < Modulus
    BY <1>5, <2>1 DEF Countable
  <2>. HIDE DEF n, m
  <2>3. n \in 0 .. Modulus - 1 /\ n \in Int
    BY <1>1, <2>2
  <2>4. n % Modulus = n
    BY <1>1, <2>3, ModFacts, Zenon
  <2>. QED  BY <1>4, <2>4, Zenon DEF n
<1>7. IndexOf(g, c) \in 0 .. Modulus - 1 /\ IndexOf(g, c) < g.width * g.height
  BY IndexRange
<1>8. ~ Undivided(Dividend(g, IndexOf(g, c)), Signed(g.width))
  BY <1>1 DEF Undivided
<1>9. /\ CellAt(g, IndexOf(g, c)) \in Cells(g)
      /\ CellAt(g, IndexOf(g, c)) = NamedCell(g, IndexOf(g, c))
  BY <1>7, <1>8, CellRange
<1>10. NamedCell(g, IndexOf(g, c)) = <<x, y>>
  BY <1>5, <1>6, Zenon DEF NamedCell
<1>. QED  BY <1>1, <1>2, <1>3, <1>9, <1>10 DEF Cells

(***************************************************************************)
(* A point that a cell of the grid holds is in no other.                   *)
(***************************************************************************)
LEMMA OneCellHolds ==
  ASSUME NEW g \in GridType, NEW p \in Vectors, NEW c \in Cells(g),
         Holds(g, CornerOf(g, c), p)
  PROVE  g.resolution # 0 /\ CellsOf(g, p) = {c}
<1>1. /\ Modulus \in Nat \ {0} /\ g.width \in 0 .. Modulus - 1 /\ g.height \in 0 .. Modulus - 1
      /\ g.resolution \in Nat /\ p[1] \in Int /\ p[2] \in Int
  BY GridAssumption, GridFields DEF Vectors
<1>2. c[1] \in 0 .. Modulus - 1 /\ c[2] \in 0 .. Modulus - 1 /\ c = <<c[1], c[2]>>
  BY <1>1 DEF Cells
<1>3. ASSUME NEW d \in {1, 2}
      PROVE  /\ c[d] * g.resolution \in Int
             /\ c[d] * g.resolution <= p[d] - g.origin[d]
             /\ p[d] - g.origin[d] < c[d] * g.resolution + g.resolution
  <2>1. c[d] * g.resolution \in Int /\ g.origin[d] \in Int /\ p[d] \in Int
    BY <1>1, <1>2, GridFields, SMT
  <2>2. CornerOf(g, c)[d] = c[d] * g.resolution + g.origin[d]
    BY DEF CornerOf
  <2>3. d \in 1 .. 2
    OBVIOUS
  <2>4. CornerOf(g, c)[d] <= p[d] /\ p[d] < CornerOf(g, c)[d] + g.resolution
    BY <2>3 DEF Holds
  <2>. QED  BY <1>1, <2>1, <2>2, <2>4
<1>4. g.resolution # 0
  <2>1. p[1] - g.origin[1] \in Int
    BY <1>1, GridFields
  <2>. QED  BY <1>1, <1>3, <2>1
<1>5. ASSUME NEW d \in {1, 2}
      PROVE  ToUnsigned((p[d] - g.origin[d]) \div g.resolution) = {c[d]}
  <2>1. p[d] - g.origin[d] \in Int /\ c[d] \in Int /\ g.resolution \in Nat \ {0}
    BY <1>1, <1>2, <1>4, GridFields
  <2>2. (p[d] - g.origin[d]) \div g.resolution = c[d]
    BY <1>3, <2>1, WholeDivision
  <2>3. c[d] \in 0 .. Modulus - 1 /\ c[d] >= 0 /\ c[d] % Modulus = c[d]
    BY <1>1, <1>2, <2>1, ModFacts
  <2>. QED  BY <2>2, <2>3 DEF ToUnsigned
<1>6. CellsOf(g, p) = {c[1]} \X {c[2]}
  BY <1>4, <1>5 DEF CellsOf
<1>. QED  BY <1>2, <1>4, <1>6

LEMMA NamedAtPoint ==
  ASSUME NEW g \in GridType, NEW p \in Vectors, NEW o \in Outcomes(g, p), Complete(g)
  PROVE  /\ o.kind # "undefined"
         /\ o.kind = "vector" =>
              \E c \in Cells(g) : NamesCell(g, c) /\ WayFrom(g, NamedAt(g, c), p, o)
         /\ \A c \in Cells(g) :
              Holds(g, CornerOf(g, c), p) /\ NamesCell(g, c) => WayFrom(g, NamedAt(g, c), p, o)
<1>. DEFINE i(c) == c[1] + c[2] * g.width
            named(c) == g.indexes[i(c) + 1]
            way(c) == LET k == CornerOf(g, NamedCell(g, named(c))) IN <<p[1] - k[1], p[2] - k[2]>>
<1>1. /\ Modulus \in Nat \ {0} /\ g.width \in Nat /\ g.height \in Nat
      /\ g.width * g.height \in Nat /\ g.indexes \in Seq(0 .. Modulus - 1)
      /\ g.width * g.height < Modulus /\ Area(g) = g.width * g.height
      /\ p[1] \in Int /\ p[2] \in Int
  <2>1. /\ Modulus \in Nat \ {0} /\ g.width \in Nat /\ g.height \in Nat
        /\ g.indexes \in Seq(0 .. Modulus - 1) /\ p[1] \in Int /\ p[2] \in Int
    BY GridAssumption, GridFields DEF Vectors
  <2>2. g.width * g.height < Modulus
    BY DEF Complete
  <2>. QED  BY <2>1, <2>2, AreaFacts
<1>2. ASSUME NEW c \in Cells(g)
      PROVE  /\ g.width # 0 /\ g.height # 0 /\ g.indexes # <<>>
             /\ PlaceOf(g, c) = i(c) /\ i(c) + 1 \in DOMAIN g.indexes
             /\ named(c) \in Nat
  <2>1. /\ g.width \in Nat \ {0} /\ g.height \in Nat \ {0}
        /\ c[1] \in 0 .. g.width - 1 /\ c[2] \in 0 .. g.height - 1
    BY <1>1 DEF Cells
  <2>2. c[1] + c[2] * g.width \in 0 .. g.width * g.height - 1
    BY <2>1, RowMajor, Zenon
  <2>3. g.width * g.height <= Len(g.indexes) /\ Len(g.indexes) \in Nat
        /\ DOMAIN g.indexes = 1 .. Len(g.indexes)
    BY <1>1, LenProperties DEF Complete
  <2>. DEFINE n == c[1] + c[2] * g.width   m == g.width * g.height   l == Len(g.indexes)
  <2>4. n \in 0 .. m - 1 /\ m \in Nat /\ m <= l /\ l \in Nat
    BY <1>1, <2>2, <2>3
  <2>. HIDE DEF n, m, l
  <2>5. n + 1 \in 1 .. l /\ l > 0
    BY <2>4
  <2>6. i(c) + 1 \in DOMAIN g.indexes
    BY <2>3, <2>5, Zenon DEF n, l
  <2>7. named(c) \in Nat
    <3>1. named(c) \in 0 .. Modulus - 1
      BY <1>1, <2>6, ElementOfSeq
    <3>. QED  BY <1>1, <3>1
  <2>8. g.indexes # <<>>
    BY <1>1, <2>5, EmptySeq DEF l
  <2>9. PlaceOf(g, c) = i(c)
    <3>1. n \in 0 .. Modulus - 1 /\ n \in Int
      BY <1>1, <2>4 DEF m
    <3>2. n % Modulus = n
      BY <1>1, <3>1, ModFacts, Zenon
    <3>. QED  BY <3>2, Zenon DEF n, PlaceOf
  <2>. QED  BY <2>1, <2>6, <2>7, <2>8, <2>9
<1>. HIDE DEF i
<1>3. ASSUME NEW c \in Cells(g)
      PROVE  ObstacleAt(g, p, c) =
               IF named(c) >= g.width * g.height THEN Throws
               ELSE [kind |-> "vector", diff |-> way(c)]
  <2>. DEFINE j == PlaceOf(g, c) + 1
  <2>1. ObstacleAt(g, p, c) =
          IF c \notin Cells(g) THEN Throws
          ELSE IF j \notin DOMAIN g.indexes THEN OutOfBounds
          ELSE IF g.indexes[j] >= Area(g) THEN Throws
          ELSE [kind |-> "vector", diff |-> WayTo(g, g.indexes[j], p)]
    BY DEF ObstacleAt
  <2>2. j = i(c) + 1 /\ j \in DOMAIN g.indexes /\ Area(g) = g.width * g.height
    BY <1>1, <1>2
  <2>. HIDE DEF j
  <2>3. g.indexes[j] = named(c) /\ WayTo(g, g.indexes[j], p) = way(c)
    BY <2>2, Zenon DEF WayTo
  <2>. QED  BY <2>1, <2>2, <2>3
<1>. HIDE DEF named
<1>4. ASSUME NEW c \in Cells(g), ~ (named(c) >= g.width * g.height),
             o = [kind |-> "vector", diff |-> way(c)]
      PROVE  NamesCell(g, c) /\ WayFrom(g, NamedAt(g, c), p, o)
  <2>. DEFINE n == named(c)   k == NamedCell(g, n)
  <2>1. n = NamedAt(g, c) /\ n \in Nat /\ n < g.width * g.height /\ g.width # 0
    BY <1>1, <1>2, <1>4 DEF NamedAt, named, i
  <2>2. k \in Cells(g) /\ k \in Nat \X Nat
    BY <2>1, CellNamed, Zenon
  <2>3. CornerOf(g, k) \in Vectors
    BY <2>2, CornerType, Zenon
  <2>4. way(c) = <<p[1] - CornerOf(g, k)[1], p[2] - CornerOf(g, k)[2]>>
    OBVIOUS
  <2>5. o.kind = "vector" /\ o.diff = way(c)
    BY <1>4
  <2>. HIDE DEF n, way
  <2>6. NamesCell(g, c)
    BY <1>1, <2>1 DEF NamesCell
  <2>. HIDE DEF k
  <2>7. CornerOf(g, k) = <<p[1] - o.diff[1], p[2] - o.diff[2]>>
    BY <1>1, <2>3, <2>4, <2>5 DEF Vectors
  <2>. QED  BY <2>1, <2>2, <2>5, <2>6, <2>7 DEF WayFrom, k
<1>5. CASE g.indexes = <<>> \/ 0 \in {g.width, g.height, g.resolution}
  <2>1. o.kind = "throws"
    BY <1>5 DEF Outcomes, Throws
  <2>2. ASSUME NEW c \in Cells(g), Holds(g, CornerOf(g, c), p)
        PROVE  FALSE
    <3>1. g.resolution # 0
      BY <2>2, OneCellHolds
    <3>. QED  BY <1>2, <1>5, <3>1
  <2>. QED  BY <2>1, <2>2
<1>6. CASE ~ (g.indexes = <<>> \/ 0 \in {g.width, g.height, g.resolution})
  <2>1. PICK c \in CellsOf(g, p) : o = ObstacleAt(g, p, c)
    BY <1>6 DEF Outcomes
  <2>2. ASSUME NEW b \in Cells(g), Holds(g, CornerOf(g, b), p)
        PROVE  c = b
    BY <2>1, <2>2, OneCellHolds
  <2>3. CASE c \in Cells(g) /\ ~ (named(c) >= g.width * g.height)
    <3>1. o = [kind |-> "vector", diff |-> way(c)]
      BY <1>2, <1>3, <2>1, <2>3
    <3>2. NamesCell(g, c) /\ WayFrom(g, NamedAt(g, c), p, o)
      BY <1>4, <2>3, <3>1
    <3>3. o.kind = "vector"
      BY <3>1
    <3>. QED  BY <2>2, <2>3, <3>2, <3>3
  <2>4. CASE c \notin Cells(g) \/ named(c) >= g.width * g.height
    <3>1. o = Throws
      <4>1. c \notin Cells(g) => ObstacleAt(g, p, c) = Throws
        BY DEF ObstacleAt
      <4>. QED  BY <1>3, <2>1, <2>4, <4>1
    <3>2. o.kind = "throws"
      BY <3>1 DEF Throws
    <3>3. ASSUME NEW b \in Cells(g), Holds(g, CornerOf(g, b), p), NamesCell(g, b)
          PROVE  FALSE
      <4>1. c = b
        BY <2>2, <3>3
      <4>2. named(b) \in 0 .. g.width * g.height - 1
        BY <3>3 DEF NamesCell, NamedAt, named, i
      <4>. QED  BY <1>1, <2>4, <3>3, <4>1, <4>2
    <3>. QED  BY <3>2, <3>3
  <2>. QED  BY <2>3, <2>4
<1>. QED  BY <1>5, <1>6

-----------------------------------------------------------------------------
(***************************************************************************)
(* The inductive invariant.                                                *)
(***************************************************************************)

\* What the callback holds comes from a message.
InFlight == callback # "idle" => incoming.frame \in Frames

\* How far the callback has come with the frame's name.
Renaming ==
  ~ raced =>
    /\ callback = "name" => incoming.in = agents_frame_id_
    /\ callback = "store" => incoming.in = agents_frame_id_ /\ incoming.frame = agents_frame_id_

\* Where the client is on its way from its point and back.
OnTheWay ==
  steady =>
    /\ reader = "cell" => cell \in CellsOf(obs_, point)
    /\ reader = "index" => \E c \in CellsOf(obs_, point) : index = IndexOf(obs_, c)
    /\ reader = "back" =>
         \E c \in CellsOf(obs_, point) : cell = CellAt(obs_, IndexOf(obs_, c))
    /\ reader = "done" =>
         \E c \in CellsOf(obs_, point) : corner = CornerOf(obs_, CellAt(obs_, IndexOf(obs_, c)))

\* The outcome is one of its copy.
Answered == reader = "asked" => obstacle \in Outcomes(od, point)

IInv == TypeOK /\ InFlight /\ Renaming /\ GridInAgentsFrame /\ OnTheWay /\ Answered

LEMMA NoGridType == NoGrid \in GridType
<1>1. Modulus \in Nat \ {0}
  BY GridAssumption
<1>2. 0 \in 0 .. Modulus - 1 /\ <<>> \in Seq(0 .. Modulus - 1) /\ <<0, 0>> \in Vectors
  BY <1>1 DEF Vectors
<1>. QED  BY <1>2, Zenon DEF NoGrid, GridType

LEMMA Start == Init => IInv
<1>. SUFFICES ASSUME Init PROVE IInv
  OBVIOUS
<1>1. Modulus \in Nat \ {0}
  BY GridAssumption
<1>2. NoGrid.frame = NoFrame /\ NoGrid.in = NoFrame
  BY DEF NoGrid
<1>3. TypeOK
  <2>1. 0 \in 0 .. Modulus - 1 /\ <<0, 0>> \in (0 .. Modulus - 1) \X (0 .. Modulus - 1)
        /\ <<0, 0>> \in Vectors
    BY <1>1 DEF Vectors
  <2>. QED  BY <2>1, NoGridType DEF TypeOK, Init, Throws
<1>4. InFlight /\ Renaming /\ GridInAgentsFrame /\ OnTheWay /\ Answered
  BY <1>2, NoGridType DEF Init, InFlight, Renaming, GridInAgentsFrame, OnTheWay, Answered
<1>. QED  BY <1>3, <1>4 DEF IInv

(***************************************************************************)
(* The callback and the setter: they leave the client's answers alone.     *)
(***************************************************************************)
LEMMA CallbackTypes ==
  ASSUME TypeOK, InFlight,
         \/ \E m \in Grids : Receive(m)
         \/ Transform \/ TransformFails \/ Name \/ Store
         \/ \E f \in Frames : SetAgentsFrameId(f)
  PROVE  TypeOK' /\ InFlight'
<1>. USE DEF interface, client
<1>. SUFFICES /\ agents_frame_id_' \in Frames
              /\ obs_' \in GridType /\ incoming' \in GridType
              /\ callback' \in {"idle", "transform", "name", "store"}
              /\ raced' \in BOOLEAN /\ stored' \in {"agents", "former", "raced"}
              /\ steady' \in BOOLEAN
              /\ UNCHANGED client /\ InFlight'
  BY DEF TypeOK
<1>1. CASE \E m \in Grids : Receive(m)
  <2>1. PICK m \in Grids : Receive(m)
    BY <1>1
  <2>2. m \in GridType /\ m.frame \in Frames
    BY GridAssumption
  <2>. QED  BY <2>1, <2>2 DEF Receive, TypeOK, InFlight
<1>2. CASE Transform
  <2>. DEFINE o == Moved(incoming.origin, incoming.frame, agents_frame_id_)
  <2>1. o \in Vectors
    <3>1. /\ incoming.frame \in Frames /\ agents_frame_id_ \in Frames
          /\ incoming.origin \in Vectors
      BY <1>2 DEF Transform, InFlight, TypeOK, GridType
    <3>2. Offset[incoming.frame] \in Vectors /\ Offset[agents_frame_id_] \in Vectors
      BY <3>1, GridAssumption
    <3>. QED  BY <3>1, <3>2 DEF Moved, Vectors
  <2>2. incoming' = [incoming EXCEPT !.origin = o, !.in = agents_frame_id_]
    BY <1>2 DEF Transform
  <2>. HIDE DEF o
  <2>3. incoming' \in GridType /\ incoming'.frame = incoming.frame
    BY <2>1, <2>2 DEF TypeOK, GridType
  <2>. QED  BY <1>2, <2>3 DEF Transform, TypeOK, InFlight
<1>3. CASE TransformFails
  BY <1>3, NoGridType DEF TransformFails, TypeOK, InFlight
<1>4. CASE Name
  <2>1. incoming' = [incoming EXCEPT !.frame = agents_frame_id_]
    BY <1>4 DEF Name
  <2>2. incoming' \in GridType /\ incoming'.frame \in Frames
    BY <2>1 DEF TypeOK, GridType
  <2>. QED  BY <1>4, <2>2 DEF Name, TypeOK, InFlight
<1>5. CASE Store
  BY <1>5, NoGridType DEF Store, TypeOK, InFlight
<1>6. CASE \E f \in Frames : SetAgentsFrameId(f)
  BY <1>6 DEF SetAgentsFrameId, TypeOK, InFlight
<1>. QED  BY <1>1, <1>2, <1>3, <1>4, <1>5, <1>6

LEMMA CallbackNames ==
  ASSUME TypeOK, InFlight, Renaming, GridInAgentsFrame,
         \/ \E m \in Grids : Receive(m)
         \/ Transform \/ TransformFails \/ Name \/ Store
         \/ \E f \in Frames : SetAgentsFrameId(f)
  PROVE  Renaming' /\ GridInAgentsFrame'
<1>. USE DEF interface, client
<1>1. CASE \E m \in Grids : Receive(m)
  <2>1. PICK m \in Grids : Receive(m)
    BY <1>1
  <2>2. m.in = m.frame
    BY GridAssumption
  <2>. QED  BY <2>1, <2>2 DEF Receive, Renaming, GridInAgentsFrame
<1>2. CASE Transform
  <2>1. incoming'.in = agents_frame_id_
    BY <1>2 DEF Transform, TypeOK, GridType
  <2>. QED  BY <1>2, <2>1 DEF Transform, Renaming, GridInAgentsFrame
<1>3. CASE TransformFails
  BY <1>3 DEF TransformFails, Renaming, GridInAgentsFrame
<1>4. CASE Name
  <2>1. incoming'.in = incoming.in /\ incoming'.frame = agents_frame_id_
    BY <1>4 DEF Name, TypeOK, GridType
  <2>. QED  BY <1>4, <2>1 DEF Name, Renaming, GridInAgentsFrame
<1>5. CASE Store
  BY <1>5 DEF Store, Renaming, GridInAgentsFrame
<1>6. CASE \E f \in Frames : SetAgentsFrameId(f)
  BY <1>6 DEF SetAgentsFrameId, Renaming, GridInAgentsFrame
<1>. QED  BY <1>1, <1>2, <1>3, <1>4, <1>5, <1>6

LEMMA CallbackClient ==
  ASSUME OnTheWay, Answered,
         \/ \E m \in Grids : Receive(m)
         \/ Transform \/ TransformFails \/ Name \/ Store
         \/ \E f \in Frames : SetAgentsFrameId(f)
  PROVE  OnTheWay' /\ Answered'
<1>. USE DEF interface, client
<1>1. UNCHANGED client /\ (UNCHANGED <<obs_, steady>> \/ ~ steady')
  BY DEF Receive, Transform, TransformFails, Name, Store, SetAgentsFrameId
<1>. QED  BY <1>1 DEF OnTheWay, Answered

(***************************************************************************)
(* The client: it leaves the interface alone.                              *)
(***************************************************************************)
LEMMA ClientStep ==
  ASSUME IInv,
         \/ \E p \in Points : Worldpoint2Cell(p) \/ ComputeObstacle(p)
         \/ Cell2Index \/ Index2Cell \/ Index2CellCrashes \/ Cell2Worldpoint
  PROVE  IInv'
<1>. USE DEF interface
<1>1. Modulus \in Nat \ {0} /\ obs_ \in GridType
  BY GridAssumption DEF IInv, TypeOK
<1>2. UNCHANGED interface
  BY DEF Worldpoint2Cell, ComputeObstacle, Cell2Index, Index2Cell, Index2CellCrashes,
         Cell2Worldpoint
<1>3. InFlight' /\ Renaming' /\ GridInAgentsFrame'
  BY <1>2 DEF IInv, InFlight, Renaming, GridInAgentsFrame
<1>. DEFINE AnswersOK == /\ cell' \in (0 .. Modulus - 1) \X (0 .. Modulus - 1)
                         /\ index' \in 0 .. Modulus - 1 /\ corner' \in Vectors
            ClientOK  == /\ point' \in Vectors /\ od' \in GridType /\ steady' \in BOOLEAN
                         /\ reader' \in {"idle", "cell", "index", "back", "done", "asked", "crashed"}
                         /\ obstacle' \in [kind : {"throws", "undefined", "vector"}, diff : Vectors]
<1>4. ASSUME AnswersOK, ClientOK PROVE TypeOK'
  BY <1>2, <1>4 DEF IInv, TypeOK
<1>5. /\ 0 \in 0 .. Modulus - 1 /\ <<0, 0>> \in (0 .. Modulus - 1) \X (0 .. Modulus - 1)
      /\ <<0, 0>> \in Vectors
  BY <1>1 DEF Vectors
<1>6. /\ point \in Vectors /\ od \in GridType /\ steady \in BOOLEAN
      /\ cell \in (0 .. Modulus - 1) \X (0 .. Modulus - 1) /\ index \in 0 .. Modulus - 1
      /\ corner \in Vectors
      /\ obstacle \in [kind : {"throws", "undefined", "vector"}, diff : Vectors]
  BY DEF IInv, TypeOK
<1>7. CASE \E p \in Points : Worldpoint2Cell(p)
  <2>1. PICK p \in Points : Worldpoint2Cell(p)
    BY <1>7
  <2>2. p \in Vectors
    BY GridAssumption
  <2>3. cell' \in CellsOf(obs_, p) /\ index' = 0 /\ corner' = <<0, 0>>
    BY <2>1 DEF Worldpoint2Cell, Keeps
  <2>4. AnswersOK
    BY <1>1, <1>5, <2>2, <2>3, CellsOfType
  <2>5. ClientOK
    BY <1>5, <2>1, <2>2, NoGridType DEF Worldpoint2Cell, Asks, Throws
  <2>6. OnTheWay' /\ Answered'
    BY <2>1, <2>3 DEF Worldpoint2Cell, Asks, OnTheWay, Answered
  <2>. QED  BY <1>3, <1>4, <2>4, <2>5, <2>6 DEF IInv
<1>8. CASE \E p \in Points : ComputeObstacle(p)
  <2>1. PICK p \in Points : ComputeObstacle(p)
    BY <1>8
  <2>2. p \in Vectors
    BY GridAssumption
  <2>3. AnswersOK
    BY <1>5, <2>1 DEF ComputeObstacle, Keeps
  <2>4. ClientOK
    BY <1>1, <2>1, <2>2, OutcomesType DEF ComputeObstacle, Asks
  <2>5. OnTheWay' /\ Answered'
    BY <2>1 DEF ComputeObstacle, Asks, OnTheWay, Answered
  <2>. QED  BY <1>3, <1>4, <2>3, <2>4, <2>5 DEF IInv
<1>9. CASE Cell2Index
  <2>1. index' = IndexOf(obs_, cell) /\ cell' = <<0, 0>> /\ corner' = <<0, 0>>
    BY <1>9 DEF Cell2Index, Keeps
  <2>2. AnswersOK
    BY <1>1, <1>5, <1>6, <2>1, IndexRange
  <2>3. ClientOK
    BY <1>6, <1>9 DEF Cell2Index
  <2>4. OnTheWay' /\ Answered'
    BY <1>9, <2>1 DEF Cell2Index, IInv, OnTheWay, Answered
  <2>. QED  BY <1>3, <1>4, <2>2, <2>3, <2>4 DEF IInv
<1>10. CASE Index2Cell
  <2>1. cell' = CellAt(obs_, index) /\ index' = 0 /\ corner' = <<0, 0>>
    BY <1>10 DEF Index2Cell, Keeps
  <2>2. AnswersOK
    <3>1. ~ Undivided(Dividend(obs_, index), Signed(obs_.width))
      BY <1>10 DEF Index2Cell
    <3>. QED  BY <1>1, <1>5, <1>6, <2>1, <3>1, CellRange
  <2>3. ClientOK
    BY <1>6, <1>10 DEF Index2Cell
  <2>4. OnTheWay' /\ Answered'
    BY <1>10, <2>1 DEF Index2Cell, IInv, OnTheWay, Answered
  <2>. QED  BY <1>3, <1>4, <2>2, <2>3, <2>4 DEF IInv
<1>11. CASE Index2CellCrashes
  <2>1. AnswersOK /\ ClientOK
    BY <1>6, <1>11 DEF Index2CellCrashes
  <2>2. OnTheWay' /\ Answered'
    BY <1>11 DEF Index2CellCrashes, OnTheWay, Answered
  <2>. QED  BY <1>3, <1>4, <2>1, <2>2 DEF IInv
<1>12. CASE Cell2Worldpoint
  <2>1. corner' = CornerOf(obs_, cell) /\ cell' = <<0, 0>> /\ index' = 0
    BY <1>12 DEF Cell2Worldpoint, Keeps
  <2>2. AnswersOK
    <3>1. cell \in Nat \X Nat
      BY <1>1, <1>6
    <3>. QED  BY <1>1, <1>5, <2>1, <3>1, CornerType
  <2>3. ClientOK
    BY <1>6, <1>12 DEF Cell2Worldpoint
  <2>4. OnTheWay' /\ Answered'
    BY <1>12, <2>1 DEF Cell2Worldpoint, IInv, OnTheWay, Answered
  <2>. QED  BY <1>3, <1>4, <2>2, <2>3, <2>4 DEF IInv
<1>. QED  BY <1>7, <1>8, <1>9, <1>10, <1>11, <1>12

LEMMA Step == IInv /\ [Next]_vars => IInv'
<1>. SUFFICES ASSUME IInv, [Next]_vars PROVE IInv'
  OBVIOUS
<1>1. CASE \/ \E m \in Grids : Receive(m)
           \/ Transform \/ TransformFails \/ Name \/ Store
           \/ \E f \in Frames : SetAgentsFrameId(f)
  BY <1>1, CallbackTypes, CallbackNames, CallbackClient DEF IInv
<1>2. CASE \/ \E p \in Points : Worldpoint2Cell(p) \/ ComputeObstacle(p)
           \/ Cell2Index \/ Index2Cell \/ Index2CellCrashes \/ Cell2Worldpoint
  BY <1>2, ClientStep
<1>3. CASE UNCHANGED vars
  BY <1>3 DEF vars, interface, client, IInv, TypeOK, InFlight, Renaming, GridInAgentsFrame,
              OnTheWay, Answered
<1>. QED  BY <1>1, <1>2, <1>3 DEF Next

LEMMA AlwaysIInv == Spec => []IInv
BY Start, Step, PTL DEF Spec

-----------------------------------------------------------------------------
(***************************************************************************)
(* The theorems.                                                           *)
(***************************************************************************)

(* Type correctness: no conversion leaves the unsigned numbers and none    *)
(* that is made divides what C cannot, whatever the grids, empty or with   *)
(* more cells than an int counts, and whatever the points                  *)
(* (obstacle_distance_interface.cpp:67-117).                               *)
THEOREM TypeCorrect == Spec => []TypeOK
<1>1. IInv => TypeOK
  BY DEF IInv
<1>. QED  BY <1>1, AlwaysIInv, PTL

(* The grid's origin is in the frame its header names, and in the agents', *)
(* unless the callback it came from was caught out by a change of the name *)
(* (obstacle_distance_interface.cpp:41-57, 130-146).                       *)
THEOREM AlwaysGridInAgentsFrame == Spec => []GridInAgentsFrame
<1>1. IInv => GridInAgentsFrame
  BY DEF IInv
<1>. QED  BY <1>1, AlwaysIInv, PTL

(* A point comes back from its index as the corner of the cell that holds  *)
(* it (obstacle_distance_interface.cpp:67-117).                            *)
THEOREM AlwaysRoundTrip == Spec => []RoundTrip
<1>1. ASSUME IInv, reader = "done", steady, Cells(obs_) # {}, Countable(obs_)
      PROVE  /\ \E c \in Cells(obs_) : corner = CornerOf(obs_, c)
             /\ (\E c \in Cells(obs_) : Holds(obs_, CornerOf(obs_, c), point)) =>
                  Holds(obs_, corner, point)
  <2>1. obs_ \in GridType /\ point \in Vectors
    BY <1>1 DEF IInv, TypeOK
  <2>3. PICK c \in CellsOf(obs_, point) : corner = CornerOf(obs_, CellAt(obs_, IndexOf(obs_, c)))
    BY <1>1 DEF IInv, OnTheWay
  <2>4. c \in (0 .. Modulus - 1) \X (0 .. Modulus - 1)
    BY <2>1, CellsOfType
  <2>5. /\ CellAt(obs_, IndexOf(obs_, c)) \in Cells(obs_)
        /\ c \in Cells(obs_) => CellAt(obs_, IndexOf(obs_, c)) = c
    BY <1>1, <2>1, <2>4, ThereAndBack
  <2>6. ASSUME NEW b \in Cells(obs_), Holds(obs_, CornerOf(obs_, b), point)
        PROVE  Holds(obs_, corner, point)
    <3>1. c = b
      BY <2>1, <2>6, OneCellHolds
    <3>. QED  BY <2>3, <2>5, <2>6, <3>1
  <2>. QED  BY <2>3, <2>5, <2>6
<1>2. IInv => RoundTrip
  BY <1>1 DEF RoundTrip
<1>. QED  BY <1>2, AlwaysIInv, PTL

(* A conversion stays in the grid it uses, also when that is not the grid  *)
(* of the conversion before (obstacle_distance_interface.cpp:85-117).      *)
THEOREM AlwaysClamped == Spec => ClampedToItsGrid
<1>1. ASSUME IInv, Next
      PROVE  Cells(obs_) # {} =>
               /\ reader = "cell" /\ reader' = "index" => index' < obs_.width * obs_.height
               /\ reader = "index" /\ reader' = "back" /\ Countable(obs_) =>
                    cell' \in Cells(obs_)
  <2>1. /\ obs_ \in GridType /\ index \in 0 .. Modulus - 1
        /\ cell \in (0 .. Modulus - 1) \X (0 .. Modulus - 1)
    BY <1>1 DEF IInv, TypeOK
  <2>2. ASSUME reader = "cell", reader' = "index"
        PROVE  Cell2Index
    BY <1>1, <2>2 DEF Next, Receive, Transform, TransformFails, Name, Store, SetAgentsFrameId,
         Worldpoint2Cell, ComputeObstacle, Index2Cell, Index2CellCrashes, Cell2Worldpoint,
         interface, client
  <2>3. ASSUME reader = "index", reader' = "back"
        PROVE  Index2Cell
    BY <1>1, <2>3 DEF Next, Receive, Transform, TransformFails, Name, Store, SetAgentsFrameId,
         Worldpoint2Cell, ComputeObstacle, Cell2Index, Index2CellCrashes, Cell2Worldpoint,
         interface, client
  <2>4. Cell2Index => index' = IndexOf(obs_, cell)
    BY DEF Cell2Index, Keeps
  <2>5. Index2Cell => /\ ~ Undivided(Dividend(obs_, index), Signed(obs_.width))
                      /\ cell' = CellAt(obs_, index)
    BY DEF Index2Cell, Keeps
  <2>6. ASSUME Cells(obs_) # {}, reader = "cell", reader' = "index"
        PROVE  index' < obs_.width * obs_.height
    BY <2>1, <2>2, <2>4, <2>6, IndexRange
  <2>7. ASSUME Cells(obs_) # {}, reader = "index", reader' = "back", Countable(obs_)
        PROVE  cell' \in Cells(obs_)
    BY <2>1, <2>3, <2>5, <2>7, CellRange
  <2>. QED  BY <2>6, <2>7
<1>. DEFINE A == Cells(obs_) # {} =>
                   /\ reader = "cell" /\ reader' = "index" => index' < obs_.width * obs_.height
                   /\ reader = "index" /\ reader' = "back" /\ Countable(obs_) =>
                        cell' \in Cells(obs_)
<1>2. IInv /\ [Next]_vars => [A]_vars
  BY <1>1
<1>. HIDE DEF A
<1>3. Spec => [][A]_vars
  BY <1>2, AlwaysIInv, PTL DEF Spec
<1>. QED  BY <1>3 DEF A, ClampedToItsGrid

(* computeObstacle on a complete grid answers with the way from a cell     *)
(* that the grid names, the one named where the point is, if a cell holds  *)
(* it (optimizer.cpp:703-758).                                             *)
THEOREM AlwaysNamedAtPoint == Spec => []ObstacleNamedAtPoint
<1>1. ASSUME IInv, reader = "asked", Complete(od)
      PROVE  ObstacleNamedAtPoint
  <2>1. od \in GridType /\ point \in Vectors /\ obstacle \in Outcomes(od, point)
    BY <1>1 DEF IInv, TypeOK, Answered
  <2>. QED  BY <1>1, <2>1, NamedAtPoint DEF ObstacleNamedAtPoint
<1>2. IInv => ObstacleNamedAtPoint
  BY <1>1 DEF ObstacleNamedAtPoint
<1>. QED  BY <1>2, AlwaysIInv, PTL
=============================================================================
