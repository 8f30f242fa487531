--------------------------- MODULE GeometryProofs ---------------------------
(***************************************************************************)
(* Lemmas about the pager's arithmetic, about the grid of desktops and     *)
(* about the searches in its list of windows, for every screen size,       *)
(* option and grid.                                                        *)
(***************************************************************************)
EXTENDS Geometry, DesktopLayout, WellFoundedInduction, TLAPS

-----------------------------------------------------------------------------
(* Smallest and largest indices *)

\* A nonempty set of natural numbers has a least element.
LEMMA SmallestElement ==
    ASSUME NEW I, I \subseteq Nat, I # {}
    PROVE  \E n \in I : \A j \in I : n <= j
<1> DEFINE R == {r \in Nat \X Nat : r[1] < r[2]}
<1>1. R = OpToRel(<, Nat)
  BY DEF OpToRel
<1>2. IsWellFoundedOn(R, Nat)
  BY NatLessThanWellFounded, <1>1
<1>3. \A x, y \in Nat : x < y => <<x, y>> \in R
  OBVIOUS
<1> HIDE DEF R
<1>4. \E x \in I : \A y \in I : ~ (<<y, x>> \in R)
  BY <1>2, WFMin, Zenon
<1>5. PICK n \in I : \A y \in I : ~ (<<y, n>> \in R)
  BY <1>4
<1>6. ASSUME NEW j \in I PROVE n <= j
  <2>1. ~ (<<j, n>> \in R)
    BY <1>5
  <2>2. n \in Nat /\ j \in Nat
    OBVIOUS
  <2>3. ~ (j < n)
    BY <2>1, <2>2, <1>3
  <2> QED
    BY <2>2, <2>3
<1> QED
  BY <1>6

\* A nonempty set of numbers up to n has a greatest element.
LEMMA LargestElement ==
    ASSUME NEW n \in Nat, NEW I, I \subseteq 1 .. n, I # {}
    PROVE  \E m \in I : \A j \in I : m >= j
<1> DEFINE J == {n - i : i \in I}
<1>1. J \subseteq Nat
  OBVIOUS
<1>2. J # {}
  <2>1. PICK i \in I : TRUE
    OBVIOUS
  <2>2. n - i \in J
    BY <2>1
  <2> QED
    BY <2>2
<1>3. \E m \in J : \A j \in J : m <= j
  <2> HIDE DEF J
  <2> QED
    BY <1>1, <1>2, SmallestElement
<1>4. PICK m \in I : \A j \in J : n - m <= j
  BY <1>3
<1>5. ASSUME NEW j \in I PROVE m >= j
  <2>1. n - m <= n - j
    BY <1>4
  <2> QED
    BY <2>1
<1> QED
  BY <1>5

\* Min and Max of a nonempty set of indices are members of it.
LEMMA MinMaxOfIndices ==
    ASSUME NEW n \in Nat, NEW I, I \subseteq 1 .. n, I # {}
    PROVE  Min(I) \in I /\ Max(I) \in I
<1>1. \E x \in I : \A y \in I : x <= y
  <2>1. I \subseteq Nat
    OBVIOUS
  <2> QED
    BY <2>1, SmallestElement
<1>2. \E x \in I : \A y \in I : x >= y
  BY LargestElement
<1>3. Min(I) \in I
  BY <1>1 DEF Min
<1>4. Max(I) \in I
  BY <1>2 DEF Max
<1> QED
  BY <1>3, <1>4

\* What the pointer hits is nothing or one of the windows.
LEMMA GetWindowIdxInRange ==
    ASSUME NEW S, NEW windows \in Seq(S), NEW g, NEW at
    PROVE  /\ get_window_idx(windows, g, at) \in 0 .. Len(windows)
           /\ get_window_idx(windows, g, at) # 0
                => Hit(g, windows[get_window_idx(windows, g, at)].client, at)
<1> DEFINE I == {i \in 1 .. Len(windows) : Hit(g, windows[i].client, at)}
<1>1. get_window_idx(windows, g, at) = IF I # {} THEN Max(I) ELSE 0
  BY DEF get_window_idx, SelectLastInSeq
<1>2. Len(windows) \in Nat
  OBVIOUS
<1>3. CASE I = {}
  <2>1. get_window_idx(windows, g, at) = 0
    BY <1>1, <1>3
  <2> QED
    BY <2>1, <1>2
<1>4. CASE I # {}
  <2>1. Max(I) \in I
    <3>1. I \subseteq 1 .. Len(windows)
      OBVIOUS
    <3> HIDE DEF I
    <3> QED
      BY <1>2, <1>4, <3>1, MinMaxOfIndices
  <2>2. get_window_idx(windows, g, at) \in I
    BY <1>1, <1>4, <2>1
  <2> QED
    BY <2>2, <1>2
<1> QED
  BY <1>3, <1>4

-----------------------------------------------------------------------------
(* Division *)

\* Both divisions stay within the integers, and the quotient of naturals is
\* a natural.
LEMMA QuotientType ==
    ASSUME NEW a \in Nat, NEW b \in Nat \ {0}
    PROVE  a \div b \in Nat
OBVIOUS

LEMMA CDivType ==
    ASSUME NEW a \in Int, NEW b \in Nat \ {0}
    PROVE  CDiv(a, b) \in Int
BY DEF CDiv

\* So do products.
LEMMA ProductTypes ==
    ASSUME NEW a \in Nat, NEW b \in Nat
    PROVE  a * b \in Nat /\ (a # 0 /\ b # 0 => a * b # 0)
OBVIOUS

LEMMA IntegerProduct ==
    ASSUME NEW a \in Int, NEW b \in Int
    PROVE  a * b \in Int
OBVIOUS

\* A cell's size is never negative, however many cells share the window
\* (pager.c:249): it can be zero, but division by it is the only danger.
LEMMA DeskSizeNat ==
    ASSUME NEW cols \in Nat \ {0}, NEW rows \in Nat \ {0}, NEW w \in Nat, NEW h \in Nat
    PROVE  desk_size(cols, rows, w, h) \in [w : Nat, h : Nat]
<1>1. ASSUME NEW n \in Nat \ {0}, NEW s \in Nat PROVE CDiv(s - (n - 1), n) \in Nat
  <2>1. CASE s - (n - 1) >= 0
    <3>1. s - (n - 1) \in Nat
      BY <2>1
    <3> QED
      BY <2>1, <3>1, QuotientType DEF CDiv
  <2>2. CASE s - (n - 1) < 0
    <3>1. -(s - (n - 1)) \in 1 .. n - 1
      BY <2>2
    <3>2. (-(s - (n - 1))) \div n = 0
      BY <3>1
    <3> QED
      BY <2>2, <3>2 DEF CDiv
  <2> QED
    BY <2>1, <2>2
<1> QED
  BY <1>1 DEF desk_size

\* The cells and the lines between them fit into the window whenever every
\* cell has a pixel: nothing is painted outside it (pager.c:586-628).
THEOREM CellsFit ==
    ASSUME NEW n \in Nat \ {0}, NEW s \in Nat, CDiv(s - (n - 1), n) > 0
    PROVE  n * CDiv(s - (n - 1), n) + (n - 1) <= s
<1> DEFINE a == s - (n - 1)
<1>1. a \in Int
  OBVIOUS
<1>2. CASE a >= 0
  <2>1. CDiv(a, n) = a \div n
    BY <1>2 DEF CDiv
  <2>2. n * (a \div n) <= a
    BY <1>1
  <2> QED
    BY <2>1, <2>2
<1>3. CASE a < 0
  <2>1. -a \in 1 .. n - 1
    BY <1>3
  <2>2. (-a) \div n = 0
    BY <2>1
  <2> QED
    BY <1>3, <2>2 DEF CDiv
<1> QED
  BY <1>1, <1>2, <1>3

-----------------------------------------------------------------------------
(* Pixels and desktops *)

\* Quotient and remainder of a division by a cell's width plus its line.
LEMMA QuotientInGrid ==
    ASSUME NEW n \in Nat \ {0}, NEW d \in Nat \ {0}, NEW x \in 0 .. n * d - 1
    PROVE  /\ CDiv(x, d) \in 0 .. n - 1
           /\ x - CDiv(x, d) * d \in 0 .. d - 1
<1>1. n * d \in Nat /\ x \in Nat
  BY ProductTypes
<1>2. CDiv(x, d) = x \div d
  BY <1>1 DEF CDiv
<1>3. x = d * (x \div d) + (x % d) /\ x % d \in 0 .. d - 1 /\ x \div d \in Nat
  BY <1>1
<1>4. x \div d < n
  <2>1. SUFFICES ASSUME x \div d >= n PROVE FALSE
    BY <1>3
  <2>2. d * (x \div d) >= d * n
    BY <2>1, <1>3
  <2>3. d * n = n * d
    OBVIOUS
  <2> QED
    BY <2>2, <2>3, <1>1, <1>3
<1>5. x - (x \div d) * d = x % d
  <2>1. (x \div d) * d = d * (x \div d)
    BY <1>3
  <2> QED
    BY <2>1, <1>3, <1>1
<1> QED
  BY <1>2, <1>3, <1>4, <1>5

\* A pixel of the grid stands for one of the cols * rows desktops: the press,
\* release and drag handlers ask only for desktops that exist as long as the
\* pointer is there (pager.c:526-539).
THEOREM PixelOfGridOnDesktop ==
    ASSUME NEW g, NEW p,
           g.cols \in Nat \ {0}, g.rows \in Nat \ {0},
           g.desk_w \in Nat \ {0}, g.desk_h \in Nat \ {0},
           p[1] \in 0 .. g.cols * (g.desk_w + 1) - 1,
           p[2] \in 0 .. g.rows * (g.desk_h + 1) - 1
    PROVE  coords_to_root(g, p).desk \in 0 .. g.cols * g.rows - 1
<1> DEFINE col == CDiv(p[1], g.desk_w + 1)
           row == CDiv(p[2], g.desk_h + 1)
<1>1. col \in 0 .. g.cols - 1
  <2>1. g.desk_w + 1 \in Nat \ {0}
    OBVIOUS
  <2> QED
    BY <2>1, QuotientInGrid
<1>2. row \in 0 .. g.rows - 1
  <2>1. g.desk_h + 1 \in Nat \ {0}
    OBVIOUS
  <2> QED
    BY <2>1, QuotientInGrid
<1>3. coords_to_root(g, p).desk = row * g.cols + col
  BY DEF coords_to_root
<1> HIDE DEF col, row
<1>4. row * g.cols \in Nat /\ g.cols * g.rows \in Nat
  BY <1>2, ProductTypes
<1>5. row * g.cols <= (g.rows - 1) * g.cols
  BY <1>2
<1>6. (g.rows - 1) * g.cols = g.cols * g.rows - g.cols
  OBVIOUS
<1> QED
  BY <1>1, <1>3, <1>4, <1>5, <1>6

-----------------------------------------------------------------------------
(* The grid and the number of desktops *)

\* A divided by b, rounded up, is the least number of rows of b that hold a.
LEMMA RowsHold ==
    ASSUME NEW a \in Nat \ {0}, NEW b \in Nat \ {0}
    PROVE  /\ CeilDiv(a, b) \in Nat \ {0}
           /\ a <= CeilDiv(a, b) * b /\ CeilDiv(a, b) * b < a + b
<1> DEFINE q == a \div b
           r == a % b
<1>1. q \in Nat /\ r \in 0 .. b - 1 /\ a = b * q + r
  OBVIOUS
<1>2. CeilDiv(a, b) = IF r # 0 THEN q + 1 ELSE q
  BY <1>1 DEF CeilDiv
<1> HIDE DEF q, r
<1>3. (q + 1) * b = b * q + b /\ q * b = b * q /\ b * q \in Nat
  BY <1>1
<1>4. CASE r # 0
  BY <1>1, <1>2, <1>3, <1>4
<1>5. CASE r = 0
  <2>1. q # 0
    BY <1>1, <1>5
  <2> QED
    BY <1>1, <1>2, <1>3, <1>5, <2>1
<1> QED
  BY <1>4, <1>5

\* The pager's grid has rows and columns.
LEMMA GridTypes ==
    ASSUME NEW nr \in Nat \ {0}, NEW layout \in [c : Nat, r : Nat]
    PROVE  Grid(nr, layout) \in [c : Nat \ {0}, r : Nat \ {0}]
<1>1. ASSUME NEW b \in Nat \ {0} PROVE CeilDiv(nr, b) \in Nat \ {0}
  BY RowsHold
<1> QED
  BY <1>1 DEF Grid

\* A grid that is not given in both directions has a cell for every desktop, and
\* would not with one row (or column) less (x.c:413-430).
THEOREM GridHoldsDesktops ==
    ASSUME NEW nr \in Nat \ {0}, NEW layout \in [c : Nat, r : Nat],
           layout.c = 0 \/ layout.r = 0
    PROVE  LET g == Grid(nr, layout)
           IN  /\ g.c \in Nat \ {0} /\ g.r \in Nat \ {0}
               /\ nr <= g.c * g.r
               /\ (g.c - 1) * g.r < nr \/ g.c * (g.r - 1) < nr
<1>1. CASE layout.c = 0 /\ layout.r = 0
  BY <1>1 DEF Grid
<1>2. CASE layout.c = 0 /\ layout.r # 0
  <2> DEFINE n == CeilDiv(nr, layout.r)
  <2>1. Grid(nr, layout) = [c |-> n, r |-> layout.r]
    BY <1>2 DEF Grid
  <2>2. n \in Nat \ {0} /\ nr <= n * layout.r /\ n * layout.r < nr + layout.r
    BY <1>2, RowsHold
  <2> HIDE DEF n
  <2>3. (n - 1) * layout.r = n * layout.r - layout.r
    BY <2>2
  <2> QED
    BY <1>2, <2>1, <2>2, <2>3
<1>3. CASE layout.c # 0 /\ layout.r = 0
  <2> DEFINE n == CeilDiv(nr, layout.c)
  <2>1. Grid(nr, layout) = [c |-> layout.c, r |-> n]
    BY <1>3 DEF Grid
  <2>2. n \in Nat \ {0} /\ nr <= n * layout.c /\ n * layout.c < nr + layout.c
    BY <1>3, RowsHold
  <2> HIDE DEF n
  <2>3. layout.c * (n - 1) = n * layout.c - layout.c /\ layout.c * n = n * layout.c
    BY <2>2
  <2> QED
    BY <1>3, <2>1, <2>2, <2>3
<1> QED
  BY <1>1, <1>2, <1>3

\* Once the layout is what the pager wrote and the window manager has granted as many
\* desktops as it asked for, the properties agree and give the same grid again, so
\* that the exchange ends there (x.c:393-448, pager.c:279-316).
THEOREM GridSettles ==
    ASSUME NEW nr \in Nat \ {0}, NEW layout \in [c : Nat, r : Nat]
    PROVE  LET g == Grid(nr, layout)
           IN  Grid(g.c * g.r, g) = g /\ ~ properties_set_by_idiot(g.c * g.r, g)
<1> DEFINE g == Grid(nr, layout)
<1>1. g \in [c : Nat \ {0}, r : Nat \ {0}]
  BY GridTypes
<1> HIDE DEF g
<1>2. Grid(g.c * g.r, g) = g
  BY <1>1 DEF Grid
<1>3. ~ properties_set_by_idiot(g.c * g.r, g)
  BY <1>1 DEF properties_set_by_idiot
<1> QED
  BY <1>2, <1>3 DEF g

-----------------------------------------------------------------------------
(* The elements of a sequence that are kept *)

\* f tells for every n what is kept of the first n elements.
KeptBy(f, s, S) ==
    f = [n \in 0 .. Len(s) |->
            IF n = 0 THEN <<>>
            ELSE IF s[n] \in S THEN Append(f[n - 1], s[n]) ELSE f[n - 1]]

\* There is such a function for every sequence: were there a shortest beginning
\* without one, it would be one element longer than a beginning that has one.
LEMMA KeptExists ==
    ASSUME NEW T, NEW s \in Seq(T), NEW S
    PROVE  \E f : KeptBy(f, s, S)
<1> DEFINE Upto(f, n) ==
        f = [m \in 0 .. n |-> IF m = 0 THEN <<>>
                              ELSE IF s[m] \in S THEN Append(f[m - 1], s[m]) ELSE f[m - 1]]
           I == {n \in 0 .. Len(s) : ~ \E f : Upto(f, n)}
<1>1. I = {}
  <2> SUFFICES ASSUME I # {} PROVE FALSE
    OBVIOUS
  <2>1. PICK n \in I : \A j \in I : n <= j
    <3>1. I \subseteq Nat
      OBVIOUS
    <3> HIDE DEF I
    <3> QED
      BY <3>1, SmallestElement
  <2>2. n \in 0 .. Len(s) /\ ~ \E f : Upto(f, n)
    OBVIOUS
  <2>3. n # 0
    <3> DEFINE f == [m \in 0 .. 0 |-> <<>>]
    <3>1. Upto(f, 0)
      OBVIOUS
    <3> HIDE DEF Upto, f
    <3> QED
      BY <2>2, <3>1
  <2>4. n - 1 \in 0 .. Len(s) /\ ~ (n <= n - 1)
    BY <2>2, <2>3
  <2>5. PICK f : Upto(f, n - 1)
    <3>1. n - 1 \notin I
      BY <2>1, <2>4
    <3> QED
      BY <2>4, <3>1
  <2> DEFINE last == IF s[n] \in S THEN Append(f[n - 1], s[n]) ELSE f[n - 1]
             g == [m \in 0 .. n |-> IF m < n THEN f[m] ELSE last]
             h == [m \in 0 .. n |-> IF m = 0 THEN <<>>
                                    ELSE IF s[m] \in S THEN Append(g[m - 1], s[m])
                                    ELSE g[m - 1]]
  <2>6. ASSUME NEW m \in 0 .. n PROVE g[m] = h[m]
    <3>1. CASE m = n
      <4>1. g[m] = last /\ n - 1 \in 0 .. n /\ g[n - 1] = f[n - 1]
        BY <2>2, <2>3, <3>1
      <4>2. h[m] = IF s[n] \in S THEN Append(g[n - 1], s[n]) ELSE g[n - 1]
        BY <2>2, <2>3, <3>1
      <4> QED
        BY <4>1, <4>2
    <3>2. CASE m < n
      <4>1. m \in 0 .. n - 1 /\ g[m] = f[m]
        BY <2>2, <3>2
      <4>2. f[m] = IF m = 0 THEN <<>>
                   ELSE IF s[m] \in S THEN Append(f[m - 1], s[m]) ELSE f[m - 1]
        BY <2>5, <4>1
      <4>3. m # 0 => m - 1 \in 0 .. n /\ g[m - 1] = f[m - 1]
        BY <2>2, <3>2
      <4>4. h[m] = IF m = 0 THEN <<>>
                   ELSE IF s[m] \in S THEN Append(g[m - 1], s[m]) ELSE g[m - 1]
        OBVIOUS
      <4> HIDE DEF g, h, Upto
      <4> QED
        BY <4>1, <4>2, <4>3, <4>4
    <3> QED
      BY <2>2, <3>1, <3>2
  <2>7. g = h
    BY <2>6
  <2>8. Upto(g, n)
    BY <2>7
  <2> HIDE DEF Upto, g
  <2> QED
    BY <2>2, <2>8
<1>2. Len(s) \in 0 .. Len(s)
  OBVIOUS
<1>3. \E f : Upto(f, Len(s))
  BY <1>1, <1>2
<1> QED
  BY <1>3 DEF KeptBy

LEMMA KeptIs ==
    ASSUME NEW T, NEW s \in Seq(T), NEW S
    PROVE  \E f : KeptBy(f, s, S) /\ Kept(s, S) = f[Len(s)]
<1> DEFINE f == CHOOSE g :
                  g = [n \in 0 .. Len(s) |->
                          IF n = 0 THEN <<>>
                          ELSE IF s[n] \in S THEN Append(g[n - 1], s[n]) ELSE g[n - 1]]
<1>1. KeptBy(f, s, S)
  <2>1. \E g : KeptBy(g, s, S)
    BY KeptExists
  <2>2. f = CHOOSE g : KeptBy(g, s, S)
    BY DEF KeptBy
  <2> HIDE DEF f
  <2> QED
    BY <2>1, <2>2, Zenon
<1>2. Kept(s, S) = f[Len(s)]
  BY Zenon DEF Kept
<1> HIDE DEF f
<1> QED
  BY <1>1, <1>2

\* What is kept of a beginning does not depend on what follows.
LEMMA KeptOfBeginning ==
    ASSUME NEW T, NEW s \in Seq(T), NEW S, NEW f, KeptBy(f, s, S), NEW n \in 0 .. Len(s)
    PROVE  Kept(SubSeq(s, 1, n), S) = f[n]
<1> DEFINE t == SubSeq(s, 1, n)
<1>1. t \in Seq(T) /\ Len(t) = n /\ \A m \in 1 .. n : t[m] = s[m]
  OBVIOUS
<1> HIDE DEF t
<1>2. PICK g : KeptBy(g, t, S) /\ Kept(t, S) = g[n]
  BY <1>1, KeptIs
<1> DEFINE I == {m \in 0 .. n : f[m] # g[m]}
<1>3. I = {}
  <2> SUFFICES ASSUME I # {} PROVE FALSE
    OBVIOUS
  <2>1. PICK m \in I : \A j \in I : m <= j
    <3>1. I \subseteq Nat
      OBVIOUS
    <3> HIDE DEF I
    <3> QED
      BY <3>1, SmallestElement
  <2>2. m \in 0 .. n /\ f[m] # g[m]
    OBVIOUS
  <2>3. f[m] = IF m = 0 THEN <<>>
               ELSE IF s[m] \in S THEN Append(f[m - 1], s[m]) ELSE f[m - 1]
    <3>1. m \in 0 .. Len(s)
      BY <2>2
    <3> QED
      BY <3>1 DEF KeptBy
  <2>4. g[m] = IF m = 0 THEN <<>>
               ELSE IF t[m] \in S THEN Append(g[m - 1], t[m]) ELSE g[m - 1]
    BY <1>1, <1>2, <2>2 DEF KeptBy
  <2>5. m # 0
    BY <2>2, <2>3, <2>4
  <2>6. m - 1 \in 0 .. n /\ ~ (m <= m - 1) /\ t[m] = s[m]
    BY <1>1, <2>2, <2>5
  <2>7. f[m - 1] = g[m - 1]
    BY <2>1, <2>6
  <2> QED
    BY <2>2, <2>3, <2>4, <2>5, <2>6, <2>7
<1> QED
  BY <1>2, <1>3 DEF t

\* An element more is kept or not.
LEMMA KeptStep ==
    ASSUME NEW T, NEW s \in Seq(T), NEW S, NEW n \in 1 .. Len(s)
    PROVE  Kept(SubSeq(s, 1, n), S) =
             IF s[n] \in S THEN Append(Kept(SubSeq(s, 1, n - 1), S), s[n])
             ELSE Kept(SubSeq(s, 1, n - 1), S)
<1>1. PICK f : KeptBy(f, s, S)
  BY KeptExists
<1>2. n \in 0 .. Len(s) /\ n - 1 \in 0 .. Len(s) /\ n # 0
  OBVIOUS
<1>3. Kept(SubSeq(s, 1, n), S) = f[n] /\ Kept(SubSeq(s, 1, n - 1), S) = f[n - 1]
  BY <1>1, <1>2, KeptOfBeginning
<1>4. f[n] = IF s[n] \in S THEN Append(f[n - 1], s[n]) ELSE f[n - 1]
  BY <1>1, <1>2 DEF KeptBy
<1> QED
  BY <1>3, <1>4

LEMMA KeptNothing ==
    ASSUME NEW T, NEW s \in Seq(T), NEW S
    PROVE  Kept(SubSeq(s, 1, 0), S) = <<>>
<1>1. PICK f : KeptBy(f, s, S)
  BY KeptExists
<1>2. 0 \in 0 .. Len(s)
  OBVIOUS
<1>3. Kept(SubSeq(s, 1, 0), S) = f[0]
  BY <1>1, <1>2, KeptOfBeginning
<1> QED
  BY <1>1, <1>2, <1>3 DEF KeptBy

\* What is kept are elements of the sequence that are in the set.
LEMMA KeptTypes ==
    ASSUME NEW T, NEW s \in Seq(T), NEW S, NEW n \in 0 .. Len(s)
    PROVE  Kept(SubSeq(s, 1, n), S) \in Seq(T \cap S)
<1>2. Kept(SubSeq(s, 1, 0), S) = <<>>
  BY KeptNothing
<1> DEFINE I == {m \in 0 .. Len(s) : Kept(SubSeq(s, 1, m), S) \notin Seq(T \cap S)}
<1>1. I = {}
  <2> SUFFICES ASSUME I # {} PROVE FALSE
    OBVIOUS
  <2>1. PICK m \in I : \A j \in I : m <= j
    <3>1. I \subseteq Nat
      OBVIOUS
    <3> HIDE DEF I
    <3> QED
      BY <3>1, SmallestElement
  <2>2. m \in 0 .. Len(s) /\ Kept(SubSeq(s, 1, m), S) \notin Seq(T \cap S)
    OBVIOUS
  <2>3. m # 0
    <3>1. <<>> \in Seq(T \cap S)
      OBVIOUS
    <3> HIDE DEF I
    <3> QED
      BY <1>2, <2>2, <3>1
  <2>4. m \in 1 .. Len(s) /\ m - 1 \in 0 .. Len(s) /\ ~ (m <= m - 1)
    BY <2>2, <2>3
  <2>5. Kept(SubSeq(s, 1, m - 1), S) \in Seq(T \cap S)
    BY <2>1, <2>4
  <2>6. s[m] \in T
    BY <2>4
  <2>7. Kept(SubSeq(s, 1, m), S) =
          IF s[m] \in S THEN Append(Kept(SubSeq(s, 1, m - 1), S), s[m])
          ELSE Kept(SubSeq(s, 1, m - 1), S)
    BY <2>4, KeptStep
  <2>8. CASE s[m] \in S
    <3>1. s[m] \in T \cap S
      BY <2>6, <2>8
    <3> HIDE DEF I
    <3> QED
      BY <2>2, <2>5, <2>7, <2>8, <3>1
  <2> QED
    BY <2>2, <2>5, <2>7, <2>8
<1> QED
  BY <1>1

\* Sets that agree on the elements of a sequence keep the same of them.
LEMMA KeptSame ==
    ASSUME NEW T, NEW s \in Seq(T), NEW S, NEW R, NEW n \in 0 .. Len(s),
           \A m \in 1 .. n : s[m] \in S <=> s[m] \in R
    PROVE  Kept(SubSeq(s, 1, n), S) = Kept(SubSeq(s, 1, n), R)
<1> DEFINE I == {m \in 0 .. n : Kept(SubSeq(s, 1, m), S) # Kept(SubSeq(s, 1, m), R)}
<1>1. I = {}
  <2> SUFFICES ASSUME I # {} PROVE FALSE
    OBVIOUS
  <2>1. PICK m \in I : \A j \in I : m <= j
    <3>1. I \subseteq Nat
      OBVIOUS
    <3> HIDE DEF I
    <3> QED
      BY <3>1, SmallestElement
  <2>2. m \in 0 .. n /\ Kept(SubSeq(s, 1, m), S) # Kept(SubSeq(s, 1, m), R)
    OBVIOUS
  <2>3. m # 0
    BY <2>2, KeptNothing
  <2>4. m \in 1 .. Len(s) /\ m \in 1 .. n /\ m - 1 \in 0 .. n /\ ~ (m <= m - 1)
    BY <2>2, <2>3
  <2>5. Kept(SubSeq(s, 1, m - 1), S) = Kept(SubSeq(s, 1, m - 1), R)
    BY <2>1, <2>4
  <2>6. Kept(SubSeq(s, 1, m), S) =
          IF s[m] \in S THEN Append(Kept(SubSeq(s, 1, m - 1), S), s[m])
          ELSE Kept(SubSeq(s, 1, m - 1), S)
    BY <2>4, KeptStep
  <2>7. Kept(SubSeq(s, 1, m), R) =
          IF s[m] \in R THEN Append(Kept(SubSeq(s, 1, m - 1), R), s[m])
          ELSE Kept(SubSeq(s, 1, m - 1), R)
    BY <2>4, KeptStep
  <2> QED
    BY <2>2, <2>4, <2>5, <2>6, <2>7
<1>2. n \in 0 .. n
  OBVIOUS
<1> QED
  BY <1>1, <1>2


-----------------------------------------------------------------------------
(* Windows that lie on their pixels *)

\* What is scaled to pixels and back is the same.
LEMMA ScaledBack ==
    ASSUME NEW m \in Nat \ {0}, NEW a \in Nat
    PROVE  (a * m) \div m = a
<1> DEFINE q == (a * m) \div m
           r == (a * m) % m
<1>1. a * m \in Nat
  BY ProductTypes
<1>2. a * m = m * q + r /\ r \in 0 .. m - 1 /\ q \in Nat
  BY <1>1
<1> HIDE DEF q, r
<1>3. m * q = q * m
  BY <1>2
<1>4. CASE a < q
  <2>1. (a + 1) * m <= q * m
    BY <1>2, <1>4
  <2>2. (a + 1) * m = a * m + m
    OBVIOUS
  <2> QED
    BY <1>1, <1>2, <1>3, <2>1, <2>2, ProductTypes
<1>5. CASE q < a
  <2>1. (q + 1) * m <= a * m
    BY <1>2, <1>5
  <2>2. (q + 1) * m = q * m + m
    BY <1>2
  <2> QED
    BY <1>1, <1>2, <1>3, <2>1, <2>2, ProductTypes
<1> QED
  BY <1>2, <1>4, <1>5 DEF q

\* Quotient and remainder are unique.
LEMMA OneQuotient ==
    ASSUME NEW m \in Nat \ {0}, NEW a \in Nat, NEW b \in Nat,
           NEW r \in 0 .. m - 1, NEW s \in 0 .. m - 1, a * m + r = b * m + s
    PROVE  a = b /\ r = s
<1>1. ASSUME NEW x \in Nat, NEW y \in Nat, NEW t \in 0 .. m - 1, NEW u \in 0 .. m - 1,
             x < y
      PROVE  x * m + t < y * m + u
  <2>1. (x + 1) * m <= y * m
    BY <1>1
  <2>2. (x + 1) * m = x * m + m
    OBVIOUS
  <2>3. x * m \in Nat /\ y * m \in Nat
    BY ProductTypes
  <2> QED
    BY <2>1, <2>2, <2>3
<1>2. a * m \in Nat /\ b * m \in Nat
  BY ProductTypes
<1>3. ~ (a < b) /\ ~ (b < a)
  BY <1>1, <1>2
<1>4. a = b
  BY <1>3
<1> QED
  BY <1>2, <1>4

\* The quotient of a pixel in the grid is the cell it is in.
LEMMA CellOfPixel ==
    ASSUME NEW d \in Nat, NEW n \in Nat, NEW x \in 0 .. d
    PROVE  CDiv(x + n * (d + 1), d + 1) = n
<1> DEFINE p == x + n * (d + 1)
           q == p \div (d + 1)
           r == p % (d + 1)
<1>1. n * (d + 1) \in Nat /\ p \in Nat /\ d + 1 \in Nat \ {0}
  BY ProductTypes
<1>2. p = (d + 1) * q + r /\ r \in 0 .. d /\ q \in Nat
  BY <1>1
<1> HIDE DEF q, r
<1>3. q * (d + 1) + r = n * (d + 1) + x
  BY <1>1, <1>2
<1>4. q = n
  BY <1>1, <1>2, <1>3, OneQuotient
<1> QED
  BY <1>1, <1>4 DEF CDiv, q


\* A box that is inside a cell covers no pixel of another one.
LEMMA BoxInCell ==
    ASSUME NEW d \in Nat, NEW a \in Nat, NEW size \in Nat, a + size <= d + 1,
           NEW x \in 0 .. d, NEW n \in Nat, NEW m \in Nat
    PROVE  x + n * (d + 1) \in a + m * (d + 1) .. a + m * (d + 1) + size - 1
             <=> n = m /\ x \in a .. a + size - 1
<1>1. n * (d + 1) \in Nat /\ m * (d + 1) \in Nat /\ d + 1 \in Nat \ {0}
  BY ProductTypes
<1>2. ASSUME x + n * (d + 1) \in a + m * (d + 1) .. a + m * (d + 1) + size - 1
      PROVE  n = m
  <2> DEFINE o == x + n * (d + 1) - m * (d + 1)
  <2>1. o \in 0 .. d /\ n * (d + 1) + x = m * (d + 1) + o
    BY <1>1, <1>2
  <2> HIDE DEF o
  <2> QED
    BY <1>1, <2>1, OneQuotient
<1> QED
  BY <1>1, <1>2

\* With k positions of the screen to a pixel, what is scaled down and up again is
\* the same.
LEMMA ScaledDown ==
    ASSUME NEW k \in Nat \ {0}, NEW d \in Nat \ {0}, NEW a \in Nat
    PROVE  CDiv((k * a) * d, k * d) = a
<1> DEFINE m == k * d
<1>1. m \in Nat \ {0} /\ (k * a) * d = a * m
  BY ProductTypes
<1> HIDE DEF m
<1>2. a * m \in Nat /\ (a * m) \div m = a
  BY <1>1, ScaledBack, ProductTypes
<1>3. CDiv(a * m, m) = a
  BY <1>2 DEF CDiv
<1> QED
  BY <1>1, <1>3, Zenon DEF m

LEMMA ScaledUp ==
    ASSUME NEW k \in Nat \ {0}, NEW d \in Nat \ {0}, NEW a \in Nat
    PROVE  CDiv(a * (k * d), d) = k * a
<1> DEFINE m == k * a
<1>1. m \in Nat /\ a * (k * d) = m * d
  BY ProductTypes
<1> HIDE DEF m
<1>2. m * d \in Nat /\ (m * d) \div d = m
  BY <1>1, ScaledBack, ProductTypes
<1>3. CDiv(m * d, d) = m
  BY <1>2 DEF CDiv
<1> QED
  BY <1>1, <1>3, Zenon DEF m

\* For naturals the two divisions are the same.
LEMMA CDivIsDiv ==
    ASSUME NEW a \in Nat, NEW b
    PROVE  CDiv(a, b) = a \div b
BY DEF CDiv

\* The height of a window, as both see it.
Height(c) == IF "shaded" \in c.states THEN WINDOW_SHADED_H ELSE c.h

\* From position `at' a window of this size covers whole pixels of a cell that has
\* n of them, k positions to the pixel, and no other cell.
OnPixels(k, n, at, size) ==
    \E a, b \in Nat : at = k * a /\ size = k * b /\ a + AtLeast(b, 3) <= n + 1

\* What is picked and what is painted in one direction: from the pixel a on, n
\* pixels.  The least size that is picked comes from the width of a cell, e, in both
\* directions.
Boxes(k, d, e, at, size, a, n) ==
    /\ a + n <= d + 1 /\ at = k * a
    /\ CDiv(at * d, k * d) = a
    /\ AtLeast((size * d) \div (k * d), 3) = n
    /\ (IF (size * e) \div (k * e) < 3 THEN (3 * (k * e)) \div e ELSE size) = k * n

LEMMA BoxesAgree ==
    ASSUME NEW k \in Nat \ {0}, NEW d \in Nat \ {0}, NEW e \in Nat \ {0},
           NEW at, NEW size, OnPixels(k, d, at, size)
    PROVE  \E a, n \in Nat : Boxes(k, d, e, at, size, a, n)
<1>1. PICK a \in Nat, b \in Nat : at = k * a /\ size = k * b /\ a + AtLeast(b, 3) <= d + 1
  BY DEF OnPixels
<1>2. k * e \in Nat /\ k * d \in Nat /\ k * b \in Nat /\ 3 \in Nat
  BY ProductTypes
<1>3. CDiv(at * d, k * d) = a /\ CDiv(size * d, k * d) = b
  <2>1. CDiv((k * a) * d, k * d) = a
    BY ScaledDown
  <2>2. CDiv((k * b) * d, k * d) = b
    BY ScaledDown
  <2> QED
    BY <1>1, <2>1, <2>2, Zenon
<1>4. CDiv(3 * (k * e), e) = k * 3
  BY <1>2, ScaledUp, Zenon
<1>5. /\ (size * e) \div (k * e) = b /\ (size * d) \div (k * d) = b
      /\ (3 * (k * e)) \div e = k * 3
  <2>1. size * d \in Nat /\ size * e \in Nat /\ 3 * (k * e) \in Nat
    BY <1>1, <1>2, ProductTypes
  <2>2. CDiv((k * b) * e, k * e) = b
    BY ScaledDown
  <2>3. CDiv(size * e, k * e) = b
    BY <1>1, <2>2, Zenon
  <2> QED
    BY <1>3, <1>4, <2>1, <2>3, CDivIsDiv, Zenon
<1> DEFINE n == AtLeast(b, 3)
<1>6. n \in Nat /\ (IF b < 3 THEN (3 * (k * e)) \div e ELSE size) = k * n
  BY <1>1, <1>5 DEF AtLeast
<1>7. a + n <= d + 1 /\ AtLeast((size * d) \div (k * d), 3) = n
  BY <1>1, <1>5
<1>8. (IF (size * e) \div (k * e) < 3 THEN (3 * (k * e)) \div e ELSE size) = k * n
  BY <1>5, <1>6
<1> HIDE DEF n
<1> QED
  BY <1>1, <1>3, <1>6, <1>7, <1>8, Zenon DEF Boxes

\* A position is in a box exactly if its pixel is.
LEMMA PixelInBox ==
    ASSUME NEW k \in Nat \ {0}, NEW a \in Nat, NEW n \in Nat, NEW x \in Nat
    PROVE  k * a <= k * x /\ k * x < k * a + k * n <=> x \in a .. a + n - 1
<1>1. /\ k * a + k * n = k * (a + n) /\ k * (x + 1) = k * x + k
      /\ k * a \in Nat /\ k * n \in Nat /\ k * x \in Nat
  BY ProductTypes
<1>2. k * a <= k * x <=> a <= x
  <2>1. ASSUME a > x PROVE k * a >= k * (x + 1)
    BY <2>1
  <2>2. ASSUME a <= x PROVE k * a <= k * x
    BY <2>2
  <2> QED
    BY <1>1, <2>1, <2>2
<1>3. k * x < k * a + k * n <=> x < a + n
  <2>1. ASSUME x < a + n PROVE k * (x + 1) <= k * (a + n)
    BY <2>1
  <2>2. ASSUME x >= a + n PROVE k * x >= k * (a + n)
    BY <2>2
  <2> QED
    BY <1>1, <2>1, <2>2
<1> QED
  BY <1>2, <1>3

\* Row and column of a desktop in the grid.
LEMMA PlaceInGrid ==
    ASSUME NEW cols \in Nat \ {0}, NEW desk \in Nat
    PROVE  /\ CDiv(desk, cols) \in Nat /\ desk - CDiv(desk, cols) * cols \in 0 .. cols - 1
<1> DEFINE q == desk \div cols
           r == desk % cols
<1>1. CDiv(desk, cols) = q
  BY DEF CDiv
<1>2. desk = cols * q + r /\ r \in 0 .. cols - 1 /\ q \in Nat
  OBVIOUS
<1> HIDE DEF q, r
<1>3. cols * q = q * cols /\ cols * q \in Nat
  BY <1>2, ProductTypes
<1> QED
  BY <1>1, <1>2, <1>3

\* The properties of a window that lies on its pixels, and in its cell, and is of a
\* type that is painted if it takes the pointer.
Regular(g, k, c) ==
    /\ OnPixels(k, g.desk_w, c.x, c.w) /\ OnPixels(k, g.desk_h, c.y, Height(c))
    /\ c.desk = Sticky \/ c.desk \in 0 .. g.cols * g.rows - 1
    /\ c.type \notin {"menu", "unknown"}

\* The cells have the shape of the screen, with k positions to a pixel.
Scaled(g, k) == root_w = k * g.desk_w /\ root_h = k * g.desk_h

\* A pixel of a cell stands for the desktop of that cell.
LEMMA RootOfPixel ==
    ASSUME NEW g, g.cols \in Nat \ {0}, g.desk_w \in Nat \ {0}, g.desk_h \in Nat \ {0},
           NEW desk \in 0 .. g.cols * g.rows - 1,
           NEW x \in 0 .. g.desk_w - 1, NEW y \in 0 .. g.desk_h - 1
    PROVE  coords_to_root(g, PixelOfCell(g, desk, <<x, y>>))
             = [rx |-> CDiv(x * root_w, g.desk_w), ry |-> CDiv(y * root_h, g.desk_h),
                desk |-> desk]
<1> DEFINE row == CDiv(desk, g.cols)
           col == desk - row * g.cols
<1>1. row \in Nat /\ col \in Nat /\ row * g.cols \in Nat
  <2>1. desk \in Nat
    OBVIOUS
  <2>2. row \in Nat /\ col \in 0 .. g.cols - 1
    BY <2>1, PlaceInGrid
  <2> HIDE DEF row, col
  <2> QED
    BY <2>2, ProductTypes
<1>2. PixelOfCell(g, desk, <<x, y>>)
        = <<x + col * (g.desk_w + 1), y + row * (g.desk_h + 1)>>
  BY DEF PixelOfCell
<1>3. row * g.cols + col = desk
  BY <1>1
<1> HIDE DEF row, col
<1>8. g.desk_w \in Nat /\ g.desk_h \in Nat /\ x \in 0 .. g.desk_w /\ y \in 0 .. g.desk_h
  OBVIOUS
<1>4. CDiv(x + col * (g.desk_w + 1), g.desk_w + 1) = col
  BY <1>1, <1>8, CellOfPixel, Zenon
<1>5. CDiv(y + row * (g.desk_h + 1), g.desk_h + 1) = row
  BY <1>1, <1>8, CellOfPixel, Zenon
<1>6. col * (g.desk_w + 1) \in Nat /\ row * (g.desk_h + 1) \in Nat
  BY <1>1, ProductTypes
<1>7. /\ x + col * (g.desk_w + 1) - col * (g.desk_w + 1) = x
      /\ y + row * (g.desk_h + 1) - row * (g.desk_h + 1) = y
  BY <1>6
<1> DEFINE p == PixelOfCell(g, desk, <<x, y>>)
<1>9. p[1] = x + col * (g.desk_w + 1) /\ p[2] = y + row * (g.desk_h + 1)
  BY <1>2
<1> HIDE DEF p
<1>10. CDiv(p[1], g.desk_w + 1) = col /\ CDiv(p[2], g.desk_h + 1) = row
  BY <1>4, <1>5, <1>9, Zenon
<1>11. p[1] - col * (g.desk_w + 1) = x /\ p[2] - row * (g.desk_h + 1) = y
  BY <1>6, <1>9
<1>12. coords_to_root(g, p) = [rx |-> CDiv(x * root_w, g.desk_w),
                              ry |-> CDiv(y * root_h, g.desk_h), desk |-> desk]
  BY <1>3, <1>10, <1>11, Zenon DEF coords_to_root
<1> QED
  BY <1>12 DEF p

\* A window is painted over a pixel of a cell exactly if its box in the cell of its
\* desktop has that pixel.
LEMMA PaintedInItsCell ==
    ASSUME NEW g, g.cols \in Nat \ {0}, g.desk_w \in Nat \ {0}, g.desk_h \in Nat \ {0},
           NEW desk \in 0 .. g.cols * g.rows - 1,
           NEW x \in 0 .. g.desk_w - 1, NEW y \in 0 .. g.desk_h - 1,
           NEW c, c.desk = Sticky \/ c.desk \in 0 .. g.cols * g.rows - 1,
           NEW b, b = DrawnBox(g, c), b.x \in Nat, b.y \in Nat, b.w \in Nat, b.h \in Nat,
           b.x + b.w <= g.desk_w + 1, b.y + b.h <= g.desk_h + 1
    PROVE  draw_window(g, c, PixelOfCell(g, desk, <<x, y>>))
             <=> /\ c.desk \in {desk, Sticky}
                 /\ x \in b.x .. b.x + b.w - 1 /\ y \in b.y .. b.y + b.h - 1
<1> DEFINE row(d) == CDiv(d, g.cols)
           col(d) == d - row(d) * g.cols
           desks == IF c.desk = Sticky THEN 0 .. g.cols * g.rows - 1 ELSE {c.desk}
<1>1. \A d \in 0 .. g.cols * g.rows - 1 :
          row(d) \in Nat /\ col(d) \in Nat /\ row(d) * g.cols \in Nat
  <2> TAKE d \in 0 .. g.cols * g.rows - 1
  <2>1. d \in Nat
    OBVIOUS
  <2>2. row(d) \in Nat /\ col(d) \in 0 .. g.cols - 1
    BY <2>1, PlaceInGrid
  <2> HIDE DEF row, col
  <2> QED
    BY <2>2, ProductTypes
<1>2. \A d, u, v : PixelOfCell(g, d, <<u, v>>)
        = <<u + col(d) * (g.desk_w + 1), v + row(d) * (g.desk_h + 1)>>
  BY DEF PixelOfCell
<1>3. draw_window(g, c, PixelOfCell(g, desk, <<x, y>>)) <=>
        \E d \in desks :
          /\ x + col(desk) * (g.desk_w + 1) \in b.x + col(d) * (g.desk_w + 1)
                .. b.x + col(d) * (g.desk_w + 1) + b.w - 1
          /\ y + row(desk) * (g.desk_h + 1) \in b.y + row(d) * (g.desk_h + 1)
                .. b.y + row(d) * (g.desk_h + 1) + b.h - 1
  BY <1>2 DEF draw_window
<1>4. desks \subseteq 0 .. g.cols * g.rows - 1 /\ (desk \in desks <=> c.desk \in {desk, Sticky})
  BY DEF Sticky
<1>5. ASSUME NEW d \in 0 .. g.cols * g.rows - 1, col(desk) = col(d), row(desk) = row(d)
      PROVE  desk = d
  BY <1>1, <1>5
<1> HIDE DEF row, col, desks
<1>6. ASSUME NEW d \in desks
      PROVE  /\ x + col(desk) * (g.desk_w + 1) \in b.x + col(d) * (g.desk_w + 1)
                    .. b.x + col(d) * (g.desk_w + 1) + b.w - 1
                <=> col(desk) = col(d) /\ x \in b.x .. b.x + b.w - 1
             /\ y + row(desk) * (g.desk_h + 1) \in b.y + row(d) * (g.desk_h + 1)
                    .. b.y + row(d) * (g.desk_h + 1) + b.h - 1
                <=> row(desk) = row(d) /\ y \in b.y .. b.y + b.h - 1
  <2>1. col(desk) \in Nat /\ row(desk) \in Nat /\ col(d) \in Nat /\ row(d) \in Nat
    BY <1>1, <1>4
  <2>2. x \in 0 .. g.desk_w /\ y \in 0 .. g.desk_h
    OBVIOUS
  <2> QED
    BY <2>1, <2>2, BoxInCell
<1>7. draw_window(g, c, PixelOfCell(g, desk, <<x, y>>)) <=>
        \E d \in desks :
          /\ col(desk) = col(d) /\ x \in b.x .. b.x + b.w - 1
          /\ row(desk) = row(d) /\ y \in b.y .. b.y + b.h - 1
  BY <1>3, <1>6
<1> QED
  BY <1>4, <1>5, <1>7

\* With cells of the shape of the screen, a pixel of a cell stands for a position
\* that hits a window on its pixels exactly if the window is painted over the pixel
\* (pager.c:474-521, 541-576).
LEMMA HitsWhatIsPainted ==
    ASSUME NEW g, g.cols \in Nat \ {0}, g.desk_w \in Nat \ {0}, g.desk_h \in Nat \ {0},
           NEW k \in Nat \ {0}, Scaled(g, k), NEW c, Regular(g, k, c),
           NEW desk \in 0 .. g.cols * g.rows - 1,
           NEW x \in 0 .. g.desk_w - 1, NEW y \in 0 .. g.desk_h - 1
    PROVE  LET p == PixelOfCell(g, desk, <<x, y>>)
           IN  Hit(g, c, coords_to_root(g, p)) <=> Paints(c) /\ draw_window(g, c, p)
<1> DEFINE p  == PixelOfCell(g, desk, <<x, y>>)
           rx == CDiv(x * root_w, g.desk_w)
           ry == CDiv(y * root_h, g.desk_h)
           at == [rx |-> rx, ry |-> ry, desk |-> desk]
           b  == DrawnBox(g, c)
           h  == HitBox(g, c)
<1>1. coords_to_root(g, p) = at
  BY RootOfPixel
<1>2. /\ b.x \in Nat /\ b.w \in Nat /\ b.x + b.w <= g.desk_w + 1
      /\ c.x <= rx /\ rx < c.x + h.w <=> x \in b.x .. b.x + b.w - 1
  <2>1. OnPixels(k, g.desk_w, c.x, c.w)
    BY DEF Regular
  <2>2. PICK a \in Nat, n \in Nat : Boxes(k, g.desk_w, g.desk_w, c.x, c.w, a, n)
    BY <2>1, BoxesAgree, Zenon
  <2>3. h.w = k * n /\ b.x = a /\ b.w = n
    BY <2>2, Zenon DEF Boxes, Scaled, HitBox, DrawnBox, WINDOW_MIN_W
  <2>4. x \in Nat
    OBVIOUS
  <2>5. rx = k * x
    BY <2>4, ScaledUp, Zenon DEF Scaled
  <2> HIDE DEF b, h, rx
  <2> QED
    BY <2>2, <2>3, <2>4, <2>5, PixelInBox DEF Boxes
<1>3. /\ b.y \in Nat /\ b.h \in Nat /\ b.y + b.h <= g.desk_h + 1
      /\ c.y <= ry /\ ry < c.y + h.h <=> y \in b.y .. b.y + b.h - 1
  <2>1. OnPixels(k, g.desk_h, c.y, Height(c))
    BY DEF Regular
  <2>2. PICK a \in Nat, n \in Nat : Boxes(k, g.desk_h, g.desk_w, c.y, Height(c), a, n)
    BY <2>1, BoxesAgree, Zenon
  <2>3. h.h = k * n /\ b.y = a /\ b.h = n
    BY <2>2, Zenon DEF Boxes, Scaled, HitBox, DrawnBox, WINDOW_MIN_H, Height
  <2>4. y \in Nat
    OBVIOUS
  <2>5. ry = k * y
    BY <2>4, ScaledUp, Zenon DEF Scaled
  <2> HIDE DEF b, h, ry
  <2> QED
    BY <2>2, <2>3, <2>4, <2>5, PixelInBox DEF Boxes
<1>4. draw_window(g, c, p) <=> /\ c.desk \in {desk, Sticky}
                               /\ x \in b.x .. b.x + b.w - 1 /\ y \in b.y .. b.y + b.h - 1
  <2>1. c.desk = Sticky \/ c.desk \in 0 .. g.cols * g.rows - 1
    BY DEF Regular
  <2> QED
    BY <1>2, <1>3, <2>1, PaintedInItsCell
<1>5. Hit(g, c, at) <=>
        /\ c.desk = desk \/ (c.desk = Sticky /\ show_sticky)
        /\ c.type # "desktop" /\ "hidden" \notin c.states
        /\ c.x <= rx /\ rx < c.x + h.w /\ c.y <= ry /\ ry < c.y + h.h
  BY Zenon DEF Hit
<1>6. Paints(c) <=> /\ c.type # "desktop" /\ "hidden" \notin c.states
                    /\ c.desk # Sticky \/ show_sticky
  BY DEF Paints, Regular
<1>7. desk # Sticky
  BY DEF Sticky
<1> HIDE DEF p, rx, ry, at, b, h
<1>8. Hit(g, c, at) <=> Paints(c) /\ draw_window(g, c, p)
  BY <1>2, <1>3, <1>4, <1>5, <1>6, <1>7
<1> QED
  BY <1>1, <1>8 DEF p

-----------------------------------------------------------------------------
(* The last element of a sequence that is in a set *)

\* Is i the last place of an element of s that is in A, or 0 if there is none?
IsLast(s, A, i) ==
    \/ i = 0 /\ \A j \in 1 .. Len(s) : s[j] \notin A
    \/ i \in 1 .. Len(s) /\ s[i] \in A /\ \A j \in 1 .. Len(s) : s[j] \in A => j <= i

LEMMA LastIsUnique ==
    ASSUME NEW T, NEW s \in Seq(T), NEW A, NEW i, NEW j, IsLast(s, A, i), IsLast(s, A, j)
    PROVE  i = j
<1>1. CASE i = 0 \/ j = 0
  BY <1>1 DEF IsLast
<1>2. CASE i # 0 /\ j # 0
  <2>1. i \in 1 .. Len(s) /\ j \in 1 .. Len(s) /\ i <= j /\ j <= i
    BY <1>2 DEF IsLast
  <2> QED
    BY <2>1
<1> QED
  BY <1>1, <1>2

LEMMA LastOfMore ==
    ASSUME NEW T, NEW s \in Seq(T), NEW e \in T, NEW A, NEW i, IsLast(s, A, i)
    PROVE  IsLast(Append(s, e), A, IF e \in A THEN Len(s) + 1 ELSE i)
<1>1. /\ Append(s, e) \in Seq(T) /\ Len(Append(s, e)) = Len(s) + 1
      /\ Append(s, e)[Len(s) + 1] = e /\ Len(s) \in Nat
      /\ \A j \in 1 .. Len(s) : Append(s, e)[j] = s[j]
  OBVIOUS
<1> QED
  BY <1>1 DEF IsLast

\* The last of s that is in A and the last of t that is in B are the same, if any.
SameLast(s, A, t, B) ==
    \E i, j \in Nat : /\ IsLast(s, A, i) /\ IsLast(t, B, j)
                      /\ i = 0 <=> j = 0
                      /\ i # 0 => s[i] = t[j]

\* The elements of s that are in Q are those in S and in R.
InBoth(s, Q, S, R) == \A m \in 1 .. Len(s) : s[m] \in Q <=> s[m] \in S /\ s[m] \in R

\* The last that is kept of a sequence and is in R is the last that is in both.
LEMMA LastKept ==
    ASSUME NEW T, NEW s \in Seq(T), NEW S, NEW R, NEW Q, InBoth(s, Q, S, R)
    PROVE  SameLast(s, Q, Kept(s, S), R)
<1> DEFINE n == Len(s)
           First(m) == SubSeq(s, 1, m)
           Same(m) == SameLast(First(m), Q, Kept(First(m), S), R)
           I == {m \in 0 .. n : ~ Same(m)}
<1>1. Same(0)
  <2>1. First(0) = <<>> /\ Kept(First(0), S) = <<>>
    BY KeptNothing
  <2>2. \A A : IsLast(<<>>, A, 0)
    BY DEF IsLast
  <2> HIDE DEF First
  <2> QED
    BY <2>1, <2>2 DEF SameLast
<1>2. ASSUME NEW m \in 1 .. n, Same(m - 1) PROVE Same(m)
  <2>1. m \in 1 .. Len(s) /\ s[m] \in T /\ m - 1 \in 0 .. Len(s)
    OBVIOUS
  <2> DEFINE t == First(m - 1)
             u == Kept(t, S)
             e == s[m]
  <2>2. t \in Seq(T) /\ First(m) = Append(t, e)
    BY <2>1
  <2>3. u \in Seq(T) /\ Kept(First(m), S) = IF e \in S THEN Append(u, e) ELSE u
    <3>1. u \in Seq(T \cap S)
      BY <2>1, KeptTypes
    <3>2. \A v \in Seq(T \cap S) : v \in Seq(T)
      OBVIOUS
    <3> QED
      BY <2>1, <3>1, <3>2, KeptStep
  <2>4. PICK i \in Nat, j \in Nat : /\ IsLast(t, Q, i) /\ IsLast(u, R, j)
                                    /\ i = 0 <=> j = 0
                                    /\ i # 0 => t[i] = u[j]
    BY <1>2 DEF SameLast
  <2>5. e \in Q <=> e \in S /\ e \in R
    BY <2>1 DEF InBoth
  <2> HIDE DEF t, u, e, First
  <2>6. i \in 0 .. Len(t) /\ j \in 0 .. Len(u) /\ Len(t) \in Nat /\ Len(u) \in Nat
    BY <2>2, <2>3, <2>4 DEF IsLast
  <2>7. e \in T
    BY <2>1 DEF e
  <2>8. CASE e \in Q
    <3>1. IsLast(First(m), Q, Len(t) + 1) /\ First(m)[Len(t) + 1] = e
      BY <2>2, <2>4, <2>7, <2>8, LastOfMore
    <3>2. /\ IsLast(Kept(First(m), S), R, Len(u) + 1)
          /\ Kept(First(m), S)[Len(u) + 1] = e
      BY <2>3, <2>4, <2>5, <2>7, <2>8, LastOfMore
    <3> QED
      BY <2>6, <3>1, <3>2 DEF SameLast
  <2>9. CASE e \notin Q
    <3>1. IsLast(First(m), Q, i) /\ (i # 0 => First(m)[i] = t[i])
      BY <2>2, <2>4, <2>6, <2>7, <2>9, LastOfMore
    <3>2. IsLast(Kept(First(m), S), R, j) /\ (j # 0 => Kept(First(m), S)[j] = u[j])
      BY <2>3, <2>4, <2>5, <2>6, <2>7, <2>9, LastOfMore
    <3> QED
      BY <2>4, <3>1, <3>2 DEF SameLast
  <2> QED
    BY <2>8, <2>9
<1> HIDE DEF Same
<1>3. I = {}
  <2> SUFFICES ASSUME I # {} PROVE FALSE
    OBVIOUS
  <2>1. PICK m \in I : \A j \in I : m <= j
    <3>1. I \subseteq Nat
      OBVIOUS
    <3> HIDE DEF I
    <3> QED
      BY <3>1, SmallestElement
  <2>2. m \in 1 .. n /\ m - 1 \in 0 .. n /\ ~ (m <= m - 1)
    BY <1>1
  <2> QED
    BY <1>2, <2>1, <2>2
<1>4. Same(n)
  <2>1. n \in 0 .. n
    OBVIOUS
  <2> QED
    BY <1>3, <2>1
<1>5. First(n) = s
  OBVIOUS
<1> QED
  BY <1>4, <1>5, Zenon DEF Same

LEMMA GreatestIsLast ==
    ASSUME NEW T, NEW s \in Seq(T), NEW A
    PROVE  LET I == {i \in 1 .. Len(s) : s[i] \in A}
           IN  IsLast(s, A, IF I # {} THEN Max(I) ELSE 0)
<1> DEFINE I == {i \in 1 .. Len(s) : s[i] \in A}
<1>1. CASE I = {}
  BY <1>1 DEF IsLast
<1>2. CASE I # {}
  <2>1. \E i \in I : \A j \in I : i >= j
    <3>1. I \subseteq 1 .. Len(s) /\ Len(s) \in Nat
      OBVIOUS
    <3> HIDE DEF I
    <3> QED
      BY <1>2, <3>1, LargestElement
  <2>2. Max(I) \in I /\ \A j \in I : Max(I) >= j
    BY <2>1, Zenon DEF Max
  <2>3. \A j \in 1 .. Len(s) : s[j] \in A => j <= Max(I)
    <3>1. ASSUME NEW j \in 1 .. Len(s), s[j] \in A PROVE j \in I
      BY <3>1
    <3>2. I \subseteq Int
      OBVIOUS
    <3> HIDE DEF I
    <3> QED
      BY <2>2, <3>1, <3>2
  <2>4. Max(I) \in 1 .. Len(s) /\ s[Max(I)] \in A
    BY <2>2
  <2>5. IsLast(s, A, Max(I))
    <3> HIDE DEF I
    <3> QED
      BY <2>3, <2>4 DEF IsLast
  <2> QED
    BY <1>2, <2>5, Zenon
<1> QED
  BY <1>1, <1>2

=============================================================================
