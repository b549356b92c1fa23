----------------------------- MODULE EditorProofs -----------------------------
(***************************************************************************)
(* Theorems about Editor: the cursor stays near the text, what is loaded   *)
(* and saved is the same text, and typing does not lose characters, for    *)
(* every text, every shape of the copy and of the screen, and every number *)
(* of keys.                                                                *)
(***************************************************************************)
EXTENDS Editor, SequenceTheorems, WellFoundedInduction, TLAPS

-----------------------------------------------------------------------------
(* Loops over numbers. *)

LEMMA Upwards ==
    ASSUME NEW n \in Nat, NEW S, 0 \in S, \A i \in 0..n - 1 : i \in S => i + 1 \in S
    PROVE  0..n \subseteq S
<1> SUFFICES ASSUME NEW k \in 0..n, k \notin S PROVE FALSE
  OBVIOUS
<1> DEFINE D == {d \in Nat : d <= n /\ d \notin S}
<1>1. k \in D
  OBVIOUS
<1>2. PICK d \in D : \A e \in D : ~(<<e, d>> \in OpToRel(<, Nat))
  BY <1>1, NatLessThanWellFounded, WFMin
<1>3. d \in Nat /\ d <= n /\ d \notin S /\ d # 0
  BY <1>2
<1>4. d - 1 \in 0..n - 1 /\ d - 1 \in Nat /\ d - 1 < d /\ (d - 1) + 1 = d
  BY <1>3
<1>5. <<d - 1, d>> \in OpToRel(<, Nat)
  BY <1>3, <1>4 DEF OpToRel
<1>6. d - 1 \notin D
  BY <1>2, <1>5
<1>7. d - 1 \in S
  BY <1>3, <1>4, <1>6
<1> QED
  BY <1>3, <1>4, <1>7

LEMMA Least ==
    ASSUME NEW S, S \subseteq Nat, S # {}
    PROVE  \E m \in S : \A y \in S : m <= y
<1>1. PICK m \in S : \A y \in S : ~(<<y, m>> \in OpToRel(<, Nat))
  BY NatLessThanWellFounded, WFMin
<1>2. ASSUME NEW y \in S PROVE m <= y
  <2>1. y \in Nat /\ m \in Nat
    OBVIOUS
  <2>2. ~(y < m)
    BY <1>1, <2>1 DEF OpToRel
  <2> QED
    BY <2>1, <2>2
<1> QED
  BY <1>2

-----------------------------------------------------------------------------
(* The shape of the copy. *)

LEMMA Shape ==
    /\ ROWS \in Nat /\ COLS \in Nat /\ FileRoom \in Nat /\ ROWS > 0 /\ COLS > 0 /\ FileRoom > 0
    /\ ROWS * COLS \in Nat /\ ROWS * COLS > 1
    /\ Low \in Nat /\ High \in Nat /\ High < Low
<1>1. \A r, c \in Nat : r * c \in Nat
  OBVIOUS
<1> QED
  BY <1>1, ShapeAssumption

\* A row is COLS further than the one before it.
LEMMA RowAfter == \A y \in Int : y * COLS \in Int /\ (y + 1) * COLS = y * COLS + COLS
BY Shape

LEMMA RowsInside == ASSUME NEW y \in Nat PROVE y * COLS \in Nat /\ (y < ROWS => (y + 1) * COLS <= ROWS * COLS)
<1>1. y * COLS \in Nat
  BY Shape
<1>2. ASSUME y < ROWS PROVE (y + 1) * COLS <= ROWS * COLS
  <2> DEFINE r == ROWS - (y + 1)
  <2>1. r \in Nat /\ ROWS = r + (y + 1)
    BY <1>2, Shape
  <2>2. \A a, b, c \in Nat : (a + b) * c = a * c + b * c /\ a * c \in Nat /\ b * c \in Nat
    OBVIOUS
  <2> HIDE DEF r
  <2>3. ROWS * COLS = r * COLS + (y + 1) * COLS /\ r * COLS \in Nat /\ (y + 1) * COLS \in Nat
    BY <2>1, <2>2, Shape
  <2> QED
    BY <2>3
<1> QED
  BY <1>1, <1>2

-----------------------------------------------------------------------------
(* The text that save_file strings together. *)

\* The recursion of Read defines a function.
Strung(copy, k, f) ==
    f = [i \in 0..k |->
            IF i = 0 THEN <<>>
            ELSE IF copy[i - 1] \in {Zero, Marker} THEN f[i - 1]
            ELSE Append(f[i - 1], copy[i - 1])]

LEMMA StrungDefined == ASSUME NEW copy, NEW n \in Nat PROVE \E f : Strung(copy, n, f)
<1> DEFINE next(i, t) == IF copy[i - 1] \in {Zero, Marker} THEN t ELSE Append(t, copy[i - 1])
           S == {k \in 0..n : \E f : Strung(copy, k, f)}
<1>1. \A k, f : Strung(copy, k, f) <=> f = [i \in 0..k |-> IF i = 0 THEN <<>> ELSE next(i, f[i - 1])]
  BY DEF Strung
<1> HIDE DEF next
<1>2. 0 \in S
  <2> DEFINE f == [i \in 0..0 |-> <<>>]
             g == [i \in 0..0 |-> IF i = 0 THEN <<>> ELSE next(i, f[i - 1])]
  <2>1. f = g
    OBVIOUS
  <2> HIDE DEF f
  <2>2. Strung(copy, 0, f)
    BY <1>1, <2>1
  <2> QED
    BY <2>2
<1>3. ASSUME NEW k \in 0..n - 1, k \in S PROVE k + 1 \in S
  <2>1. PICK f : Strung(copy, k, f)
    BY <1>3
  <2> DEFINE g == [i \in 0..k + 1 |-> IF i = k + 1 THEN next(k + 1, f[k]) ELSE f[i]]
             h == [i \in 0..k + 1 |-> IF i = 0 THEN <<>> ELSE next(i, g[i - 1])]
  <2>2. k \in Nat /\ k + 1 \in 0..n /\ k + 1 # 0 /\ (k + 1) - 1 = k
    OBVIOUS
  <2>3. \A i \in 0..k : g[i] = f[i]
    BY <2>2
  <2>4. ASSUME NEW i \in 0..k + 1 PROVE g[i] = h[i]
    <3>1. CASE i = k + 1
      <4>1. g[i] = next(k + 1, f[k]) /\ h[i] = next(k + 1, g[k]) /\ g[k] = f[k]
        BY <2>2, <2>3, <3>1
      <4> QED
        BY <4>1
    <3>2. CASE i # k + 1
      <4>1. i \in 0..k /\ (i # 0 => i - 1 \in 0..k)
        BY <2>2, <3>2
      <4>2. g[i] = f[i] /\ (i # 0 => g[i - 1] = f[i - 1])
        BY <2>3, <4>1
      <4>3. f[i] = IF i = 0 THEN <<>> ELSE next(i, f[i - 1])
        BY <1>1, <2>1, <4>1
      <4>4. h[i] = IF i = 0 THEN <<>> ELSE next(i, g[i - 1])
        OBVIOUS
      <4> HIDE DEF g, h
      <4> QED
        BY <4>2, <4>3, <4>4
    <3> QED
      BY <3>1, <3>2
  <2>5. g = h
    BY <2>4
  <2> HIDE DEF g
  <2>6. Strung(copy, k + 1, g)
    BY <1>1, <2>5
  <2> QED
    BY <2>2, <2>6
<1>4. n \in S
  <2> HIDE DEF S
  <2> QED
    BY <1>2, <1>3, Upwards
<1> QED
  BY <1>4

LEMMA ReadIs ==
    ASSUME NEW copy
    PROVE  /\ Read(copy)[0] = <<>>
           /\ \A i \in Cells : Read(copy)[i + 1] = IF copy[i] \in {Zero, Marker} THEN Read(copy)[i]
                                                   ELSE Append(Read(copy)[i], copy[i])
<1> DEFINE n == ROWS * COLS
           f == CHOOSE f : Strung(copy, n, f)
<1>1. n \in Nat
  BY Shape
<1>2. Strung(copy, n, f)
  <2> HIDE DEF n
  <2> QED
    BY <1>1, StrungDefined
<1>3. Read(copy) = f
  BY DEF Read, Strung
<1> HIDE DEF f
<1>4. f[0] = <<>>
  BY <1>1, <1>2 DEF Strung
<1>5. ASSUME NEW i \in Cells
      PROVE  f[i + 1] = IF copy[i] \in {Zero, Marker} THEN f[i] ELSE Append(f[i], copy[i])
  <2>1. i + 1 \in 0..n /\ i + 1 # 0 /\ (i + 1) - 1 = i
    BY <1>1 DEF Cells
  <2> QED
    BY <1>2, <2>1 DEF Strung
<1> QED
  BY <1>3, <1>4, <1>5

Copies == [Cells -> Char \cup {Zero, Marker}]

\* What was read of a copy is a text, not longer than the cells it came from.
LEMMA ReadsText ==
    ASSUME NEW copy \in Copies, NEW k \in 0..ROWS * COLS
    PROVE  Read(copy)[k] \in Seq(Char) /\ Len(Read(copy)[k]) <= k
<1> DEFINE n == ROWS * COLS
           S == {i \in 0..n : Read(copy)[i] \in Seq(Char) /\ Len(Read(copy)[i]) <= i}
<1>1. n \in Nat
  BY Shape
<1>2. 0 \in S
  <2>1. <<>> \in Seq(Char) /\ Len(<<>>) = 0
    OBVIOUS
  <2>2. Read(copy)[0] = <<>>
    BY ReadIs
  <2>3. Read(copy)[0] \in Seq(Char) /\ Len(Read(copy)[0]) <= 0
    <3>1. Len(<<>>) <= 0
      BY <2>1
    <3> QED
      BY <2>1, <2>2, <3>1, Zenon
  <2>4. 0 \in 0..n
    BY <1>1
  <2> QED
    BY <2>3, <2>4
<1>3. ASSUME NEW i \in 0..n - 1, i \in S PROVE i + 1 \in S
  <2>1. i \in Cells /\ i + 1 \in 0..n
    BY <1>1 DEF Cells
  <2> DEFINE t == Read(copy)[i]
  <2>2. t \in Seq(Char) /\ Len(t) <= i /\ i \in Nat /\ Len(t) \in Nat
    BY <1>3
  <2>3. CASE copy[i] \in {Zero, Marker}
    <3>1. Read(copy)[i + 1] = t
      BY <2>1, <2>3, ReadIs
    <3> HIDE DEF t
    <3> QED
      BY <2>1, <2>2, <3>1
  <2>4. CASE copy[i] \notin {Zero, Marker}
    <3>1. Read(copy)[i + 1] = Append(t, copy[i])
      BY <2>1, <2>4, ReadIs
    <3>2. copy[i] \in Char
      BY <2>1, <2>4 DEF Copies
    <3> HIDE DEF t
    <3>3. Append(t, copy[i]) \in Seq(Char) /\ Len(Append(t, copy[i])) = Len(t) + 1
      BY <2>2, <3>2, AppendProperties
    <3>4. Len(t) + 1 <= i + 1
      BY <2>2
    <3> QED
      BY <2>1, <3>1, <3>3, <3>4
  <2> QED
    BY <2>3, <2>4
<1>4. k \in S
  <2> HIDE DEF S
  <2> QED
    BY <1>1, <1>2, <1>3, Upwards
<1> QED
  BY <1>4

\* Equal cells read alike.
LEMMA ReadsAlike ==
    ASSUME NEW a, NEW b, NEW k \in 0..ROWS * COLS, \A i \in Cells : i < k => a[i] = b[i]
    PROVE  Read(a)[k] = Read(b)[k]
<1> DEFINE S == {i \in 0..k : Read(a)[i] = Read(b)[i]}
<1>1. k \in Nat /\ ROWS * COLS \in Nat
  BY Shape
<1>2. 0 \in S
  BY <1>1, ReadIs
<1>3. ASSUME NEW i \in 0..k - 1, i \in S PROVE i + 1 \in S
  <2>1. i \in Cells /\ i < k /\ i + 1 \in 0..k
    BY <1>1 DEF Cells
  <2>2. Read(a)[i] = Read(b)[i] /\ a[i] = b[i]
    BY <1>3, <2>1
  <2>3. Read(a)[i + 1] = IF a[i] \in {Zero, Marker} THEN Read(a)[i] ELSE Append(Read(a)[i], a[i])
    BY <2>1, ReadIs
  <2>4. Read(b)[i + 1] = IF b[i] \in {Zero, Marker} THEN Read(b)[i] ELSE Append(Read(b)[i], b[i])
    BY <2>1, ReadIs
  <2> QED
    BY <2>1, <2>2, <2>3, <2>4
<1>4. k \in S
  <2> HIDE DEF S
  <2> QED
    BY <1>1, <1>2, <1>3, Upwards
<1> QED
  BY <1>4

\* Behind the last character nothing is read.
LEMMA ReadsNoMore ==
    ASSUME NEW copy, NEW k \in 0..ROWS * COLS, \A i \in Cells : i >= k => copy[i] \in {Zero, Marker}
    PROVE  TextOf(copy) = Read(copy)[k]
<1> DEFINE m == ROWS * COLS - k
           S == {i \in 0..m : Read(copy)[k + i] = Read(copy)[k]}
<1>1. k \in Nat /\ ROWS * COLS \in Nat /\ m \in Nat /\ k + m = ROWS * COLS
  BY Shape
<1>2. 0 \in S
  BY <1>1
<1>3. ASSUME NEW i \in 0..m - 1, i \in S PROVE i + 1 \in S
  <2>1. k + i \in Cells /\ k + i >= k /\ i + 1 \in 0..m /\ (k + i) + 1 = k + (i + 1)
    BY <1>1 DEF Cells
  <2>2. Read(copy)[(k + i) + 1] = Read(copy)[k + i]
    BY <2>1, ReadIs
  <2> QED
    BY <1>3, <2>1, <2>2
<1>4. m \in S
  <2> HIDE DEF S, m
  <2> QED
    BY <1>1, <1>2, <1>3, Upwards
<1> QED
  BY <1>1, <1>4 DEF TextOf

\* A character in the first cell behind the text is the text's next one.
LEMMA ReadsOneMore ==
    ASSUME NEW a \in Copies, NEW b \in Copies, NEW k \in Cells,
           \A i \in Cells : i < k => a[i] = b[i],
           \A i \in Cells : i >= k => a[i] \in {Zero, Marker},
           \A i \in Cells : i > k => b[i] \in {Zero, Marker},
           b[k] \in Char
    PROVE  TextOf(b) = Append(TextOf(a), b[k])
<1>1. k \in Nat /\ k \in 0..ROWS * COLS /\ k + 1 \in 0..ROWS * COLS
  BY Shape DEF Cells
<1>2. TextOf(a) = Read(a)[k]
  BY <1>1, ReadsNoMore
<1>3. \A i \in Cells : i >= k + 1 => b[i] \in {Zero, Marker}
  <2>1. \A i \in Cells : i >= k + 1 => i > k
    BY <1>1 DEF Cells
  <2> QED
    BY <2>1
<1>4. TextOf(b) = Read(b)[k + 1]
  BY <1>1, <1>3, ReadsNoMore
<1>5. Read(a)[k] = Read(b)[k]
  BY <1>1, ReadsAlike
<1>6. b[k] \notin {Zero, Marker}
  BY TextAssumption
<1>7. Read(b)[k + 1] = Append(Read(b)[k], b[k])
  BY <1>6, ReadIs
<1> QED
  BY <1>2, <1>4, <1>5, <1>7

-----------------------------------------------------------------------------
(* The copy that create_copy lays out. *)

Blank == [copy |-> Empty, x |-> 0, y |-> 0, ln |-> 0, outside |-> FALSE]

\* The recursion of Laid defines a function.
Lays(text, k, f) == f = [i \in 0..k |-> IF i = 0 THEN Blank ELSE Place(f[i - 1], text[i])]

LEMMA LaysDefined == ASSUME NEW text, NEW n \in Nat PROVE \E f : Lays(text, n, f)
<1> DEFINE next(i, l) == Place(l, text[i])
           S == {k \in 0..n : \E f : Lays(text, k, f)}
<1>1. \A k, f : Lays(text, k, f) <=> f = [i \in 0..k |-> IF i = 0 THEN Blank ELSE next(i, f[i - 1])]
  BY DEF Lays
<1> HIDE DEF next
<1>2. 0 \in S
  <2> DEFINE f == [i \in 0..0 |-> Blank]
             g == [i \in 0..0 |-> IF i = 0 THEN Blank ELSE next(i, f[i - 1])]
  <2>1. f = g
    OBVIOUS
  <2> HIDE DEF f
  <2>2. Lays(text, 0, f)
    BY <1>1, <2>1
  <2> QED
    BY <2>2
<1>3. ASSUME NEW k \in 0..n - 1, k \in S PROVE k + 1 \in S
  <2>1. PICK f : Lays(text, k, f)
    BY <1>3
  <2> DEFINE g == [i \in 0..k + 1 |-> IF i = k + 1 THEN next(k + 1, f[k]) ELSE f[i]]
             h == [i \in 0..k + 1 |-> IF i = 0 THEN Blank ELSE next(i, g[i - 1])]
  <2>2. k \in Nat /\ k + 1 \in 0..n /\ k + 1 # 0 /\ (k + 1) - 1 = k
    OBVIOUS
  <2>3. \A i \in 0..k : g[i] = f[i]
    BY <2>2
  <2>4. ASSUME NEW i \in 0..k + 1 PROVE g[i] = h[i]
    <3>1. CASE i = k + 1
      <4>1. g[i] = next(k + 1, f[k]) /\ h[i] = next(k + 1, g[k]) /\ g[k] = f[k]
        BY <2>2, <2>3, <3>1
      <4> QED
        BY <4>1
    <3>2. CASE i # k + 1
      <4>1. i \in 0..k /\ (i # 0 => i - 1 \in 0..k)
        BY <2>2, <3>2
      <4>2. g[i] = f[i] /\ (i # 0 => g[i - 1] = f[i - 1])
        BY <2>3, <4>1
      <4>3. f[i] = IF i = 0 THEN Blank ELSE next(i, f[i - 1])
        BY <1>1, <2>1, <4>1
      <4>4. h[i] = IF i = 0 THEN Blank ELSE next(i, g[i - 1])
        OBVIOUS
      <4> HIDE DEF g, h
      <4> QED
        BY <4>2, <4>3, <4>4
    <3> QED
      BY <3>1, <3>2
  <2>5. g = h
    BY <2>4
  <2> HIDE DEF g
  <2>6. Lays(text, k + 1, g)
    BY <1>1, <2>5
  <2> QED
    BY <2>2, <2>6
<1>4. n \in S
  <2> HIDE DEF S
  <2> QED
    BY <1>2, <1>3, Upwards
<1> QED
  BY <1>4

LEMMA LaidIs ==
    ASSUME NEW text \in Seq(Char)
    PROVE  /\ Laid(text)[0] = Blank
           /\ \A i \in 0..Len(text) - 1 : Laid(text)[i + 1] = Place(Laid(text)[i], text[i + 1])
<1> DEFINE n == Len(text)
           f == CHOOSE f : Lays(text, n, f)
<1>1. n \in Nat
  BY LenProperties
<1>2. Lays(text, n, f)
  <2> HIDE DEF n
  <2> QED
    BY <1>1, LaysDefined
<1>3. Laid(text) = f
  BY DEF Laid, Lays, Blank
<1> HIDE DEF f, n
<1>4. f[0] = Blank
  BY <1>1, <1>2 DEF Lays
<1>5. ASSUME NEW i \in 0..n - 1 PROVE f[i + 1] = Place(f[i], text[i + 1])
  <2>1. i + 1 \in 0..n /\ i + 1 # 0 /\ (i + 1) - 1 = i
    BY <1>1
  <2>2. f[i + 1] = Place(f[(i + 1) - 1], text[i + 1])
    BY <1>2, <2>1 DEF Lays
  <2> QED
    BY <2>1, <2>2
<1> QED
  BY <1>3, <1>4, <1>5 DEF n

\* The text so far is in the copy, and behind it is nothing.
LayOK(lay, t) ==
    /\ lay.copy \in Copies /\ lay.x \in 0..COLS - 1 /\ lay.y \in Nat /\ lay.ln \in Nat
    /\ ~lay.outside =>
         /\ \A j \in Cells : j >= lay.y * COLS + lay.x => lay.copy[j] \in {Zero, Marker}
         /\ TextOf(lay.copy) = t

\* One turn of create_copy's loop adds one character to the text (vim.c:124-140).
LEMMA PlaceKeeps ==
    ASSUME NEW lay, NEW t \in Seq(Char), LayOK(lay, t), NEW c \in Char
    PROVE  LayOK(Place(lay, c), Append(t, c))
<1> DEFINE at == lay.y * COLS + lay.x
           next == (lay.y + 1) * COLS
           full == c # NewLine /\ lay.x + 1 >= COLS
           w == [i \in Cells |-> IF i = at THEN c ELSE IF full /\ i = next THEN Marker ELSE lay.copy[i]]
           o == lay.outside \/ at \notin Cells \/ (full /\ next \notin Cells)
           p == Place(lay, c)
<1>1. p = [copy |-> w,
           x |-> IF c = NewLine \/ full THEN 0 ELSE lay.x + 1,
           y |-> IF c = NewLine \/ full THEN lay.y + 1 ELSE lay.y,
           ln |-> IF c = NewLine THEN lay.ln + 1 ELSE lay.ln,
           outside |-> o]
  BY Zenon DEF Place
<1>2. ~o => ~lay.outside /\ at \in Cells
  OBVIOUS
<1> HIDE DEF o, p
<1>3. /\ p.copy = w /\ p.outside = o
      /\ p.x = (IF c = NewLine \/ full THEN 0 ELSE lay.x + 1)
      /\ p.y = (IF c = NewLine \/ full THEN lay.y + 1 ELSE lay.y)
      /\ p.ln = (IF c = NewLine THEN lay.ln + 1 ELSE lay.ln)
  <2> HIDE DEF w, full
  <2> QED
    BY <1>1
<1>4. lay.copy \in Copies /\ lay.x \in 0..COLS - 1 /\ lay.y \in Nat /\ lay.ln \in Nat
  BY DEF LayOK
<1>5. lay.y * COLS \in Int /\ next = lay.y * COLS + COLS /\ COLS \in Nat /\ lay.x \in Int
  BY <1>4, RowAfter, Shape
<1>6. at \in Int /\ next \in Int /\ at < next
  <2> DEFINE m == lay.y * COLS
  <2>1. m \in Int /\ next = m + COLS /\ at = m + lay.x
    BY <1>5
  <2> HIDE DEF m, next, at
  <2> QED
    BY <1>4, <1>5, <2>1
<1>7. p.y * COLS + p.x = IF c = NewLine \/ full THEN next ELSE at + 1
  <2>1. CASE c = NewLine \/ full
    BY <1>3, <1>5, <1>6, <2>1
  <2>2. CASE ~(c = NewLine \/ full)
    <3>1. p.y = lay.y /\ p.x = lay.x + 1
      BY <1>3, <2>2
    <3> QED
      BY <1>5, <2>2, <3>1
  <2> QED
    BY <2>1, <2>2
<1> HIDE DEF next
<1>8. w \in Copies
  <2> HIDE DEF at
  <2> QED
    BY <1>4 DEF Copies
<1>9. p.x \in 0..COLS - 1 /\ p.y \in Nat /\ p.ln \in Nat
  <2>1. ~(c = NewLine \/ full) => lay.x + 1 < COLS
    BY <1>4, <1>5
  <2>2. CASE c = NewLine \/ full
    <3>1. p.x = 0 /\ p.y = lay.y + 1 /\ p.ln \in {lay.ln, lay.ln + 1}
      BY <1>3, <2>2
    <3> QED
      BY <1>4, <3>1, Shape
  <2>3. CASE ~(c = NewLine \/ full)
    <3>1. p.x = lay.x + 1 /\ p.y = lay.y /\ p.ln = lay.ln
      BY <1>3, <2>3
    <3>2. lay.x + 1 < COLS
      BY <2>1, <2>3
    <3> QED
      BY <1>4, <1>5, <3>1, <3>2
  <2> QED
    BY <2>2, <2>3
<1>10. ASSUME ~o
       PROVE  /\ \A j \in Cells : j >= p.y * COLS + p.x => w[j] \in {Zero, Marker}
              /\ TextOf(w) = Append(t, c)
  <2>1. at \in Cells /\ TextOf(lay.copy) = t
        /\ \A j \in Cells : j >= at => lay.copy[j] \in {Zero, Marker}
    BY <1>2, <1>10 DEF LayOK
  <2> HIDE DEF at, full
  <2>2. ASSUME NEW j \in Cells PROVE j \in Int
    BY DEF Cells
  <2>3. ASSUME NEW j \in Cells, j > at PROVE w[j] \in {Zero, Marker}
    BY <1>6, <2>1, <2>2, <2>3
  <2>4. ASSUME NEW j \in Cells, j >= p.y * COLS + p.x PROVE j > at
    BY <1>6, <1>7, <2>2, <2>4
  <2>5. w[at] = c
    BY <2>1
  <2>6. ASSUME NEW j \in Cells, j < at PROVE lay.copy[j] = w[j]
    BY <1>6, <2>2, <2>6
  <2> HIDE DEF w
  <2>7. TextOf(w) = Append(TextOf(lay.copy), w[at])
    BY <1>4, <1>8, <2>1, <2>3, <2>5, <2>6, ReadsOneMore
  <2> QED
    BY <2>1, <2>3, <2>4, <2>5, <2>7
<1> HIDE DEF w
<1> QED
  BY <1>3, <1>8, <1>9, <1>10 DEF LayOK, p

\* Loading a text: a copy that reads as the text, unless the rows do not do.
LEMMA LayoutIs ==
    ASSUME NEW text \in Seq(Char)
    PROVE  /\ Layout(text).copy \in Copies /\ Layout(text).ln \in Nat
           /\ ~Layout(text).outside => TextOf(Layout(text).copy) = text
<1> DEFINE n == Len(text)
           upto(i) == [j \in 1..i |-> text[j]]
           S == {i \in 0..n : LayOK(Laid(text)[i], upto(i))}
<1>1. n \in Nat /\ text = upto(n)
  <2>1. text \in [1..n -> Char] /\ n \in Nat
    BY LenProperties
  <2> QED
    BY <2>1
<1>2. 0 \in S
  <2>1. Blank.copy = Empty /\ Blank.x = 0 /\ Blank.y = 0 /\ Blank.ln = 0
    BY DEF Blank
  <2>2. Empty \in Copies /\ \A j \in Cells : Empty[j] \in {Zero, Marker}
    BY DEF Empty, Copies
  <2>3. TextOf(Empty) = <<>>
    <3>1. 0 \in 0..ROWS * COLS /\ \A j \in Cells : j >= 0 => Empty[j] \in {Zero, Marker}
      BY <2>2, Shape
    <3>2. TextOf(Empty) = Read(Empty)[0]
      BY <3>1, ReadsNoMore
    <3> QED
      BY <3>2, ReadIs
  <2>4. upto(0) = <<>>
    OBVIOUS
  <2>5. LayOK(Blank, upto(0))
    <3> HIDE DEF upto
    <3> QED
      BY <2>1, <2>2, <2>3, <2>4, Shape DEF LayOK
  <2> QED
    BY <1>1, <2>5, LaidIs
<1>3. ASSUME NEW i \in 0..n - 1, i \in S PROVE i + 1 \in S
  <2>1. i + 1 \in 0..n /\ i + 1 \in 1..n /\ i \in Nat
    BY <1>1
  <2>2. text \in [1..n -> Char]
    BY LenProperties
  <2>3. Laid(text)[i + 1] = Place(Laid(text)[i], text[i + 1])
    BY LaidIs
  <2>4. upto(i) \in Seq(Char) /\ Len(upto(i)) = i /\ text[i + 1] \in Char
    <3>1. upto(i) \in [1..i -> Char]
      BY <2>1, <2>2
    <3> HIDE DEF upto
    <3> QED
      BY <2>1, <2>2, <3>1, IsASeq
  <2>5. Append(upto(i), text[i + 1]) = upto(i + 1)
    <3> DEFINE a == Append(upto(i), text[i + 1])
               u == upto(i)
    <3>1. upto(i + 1) \in [1..i + 1 -> Char]
      BY <2>1, <2>2
    <3>2. \A j \in 1..i : u[j] = text[j]
      OBVIOUS
    <3>3. \A j \in 1..i + 1 : upto(i + 1)[j] = text[j]
      OBVIOUS
    <3> HIDE DEF u
    <3>4. a \in Seq(Char) /\ Len(a) = i + 1 /\ \A j \in 1..i : a[j] = u[j]
      BY <2>1, <2>4, AppendProperties DEF u
    <3>5. a[i + 1] = text[i + 1]
      BY <2>1, <2>4, AppendProperties
    <3> HIDE DEF a
    <3>6. a \in [1..i + 1 -> Char]
      BY <2>1, <3>4, LenProperties
    <3>7. \A j \in 1..i + 1 : a[j] = upto(i + 1)[j]
      <4> HIDE DEF upto
      <4> TAKE j \in 1..i + 1
      <4>1. j \in 1..i \/ j = i + 1
        BY <2>1
      <4> QED
        BY <3>2, <3>3, <3>4, <3>5, <4>1
    <3> HIDE DEF upto
    <3>8. a = upto(i + 1)
      BY <3>1, <3>6, <3>7
    <3> QED
      BY <3>8 DEF a
  <2> HIDE DEF upto
  <2>6. LayOK(Laid(text)[i], upto(i))
    BY <1>3
  <2>7. LayOK(Laid(text)[i + 1], upto(i + 1))
    BY <2>3, <2>4, <2>5, <2>6, PlaceKeeps
  <2> QED
    BY <2>1, <2>7
<1>4. n \in S
  <2> HIDE DEF S, n
  <2> QED
    BY <1>1, <1>2, <1>3, Upwards
<1>5. LayOK(Layout(text), text)
  <2> HIDE DEF upto
  <2> QED
    BY <1>1, <1>4 DEF Layout
<1> QED
  BY <1>5 DEF LayOK

-----------------------------------------------------------------------------
(* Texts in memory. *)

Disks == [Bytes -> Char \cup {Zero}]

LEMMA BytesAre == \A i \in Bytes : i \in Nat /\ i <= FileRoom + ROWS * COLS
<1>1. FileRoom + ROWS * COLS \in Nat
  BY Shape
<1> QED
  BY <1>1 DEF Bytes

\* A string goes as far as the first 0.
LEMMA StringEnds ==
    ASSUME NEW d \in Disks, NEW len \in Bytes, d[len] = Zero, \A i \in Bytes : i < len => d[i] # Zero
    PROVE  /\ StringOn(d) = [i \in 1..len |-> d[i - 1]]
           /\ StringOn(d) \in Seq(Char) /\ Len(StringOn(d)) = len
<1> DEFINE ends == {i \in Bytes : d[i] = Zero}
           l == CHOOSE i \in ends : \A j \in ends : i <= j
<1>1. len \in Nat
  BY BytesAre
<1>2. len \in ends /\ \A j \in ends : len <= j
  <2>1. ASSUME NEW j \in ends PROVE len <= j
    <3>1. j \in Nat /\ ~(j < len)
      BY BytesAre
    <3> QED
      BY <1>1, <3>1
  <2> QED
    BY <2>1
<1>3. l \in ends /\ \A j \in ends : l <= j
  <2> HIDE DEF ends
  <2> QED
    BY <1>2
<1>4. l = len
  <2>1. l \in Nat
    BY <1>3, BytesAre
  <2>2. l <= len /\ len <= l
    BY <1>2, <1>3
  <2> HIDE DEF l
  <2> QED
    BY <1>1, <2>1, <2>2
<1>5. StringOn(d) = [i \in 1..l |-> d[i - 1]]
  BY DEF StringOn
<1>6. ASSUME NEW i \in 1..len PROVE d[i - 1] \in Char
  <2>1. i - 1 \in Nat /\ i - 1 < len /\ len <= FileRoom + ROWS * COLS /\ FileRoom + ROWS * COLS \in Nat
    BY <1>1, BytesAre, Shape
  <2>2. i - 1 \in Bytes
    BY <1>1, <2>1 DEF Bytes
  <2> QED
    BY <2>1, <2>2 DEF Disks
<1> HIDE DEF l
<1>7. StringOn(d) \in [1..len -> Char]
  BY <1>4, <1>5, <1>6
<1> QED
  BY <1>1, <1>4, <1>5, <1>7, IsASeq

\* There is such a 0 where there is one at all.
LEMMA StringHas ==
    ASSUME NEW d \in Disks, NEW e \in Bytes, d[e] = Zero
    PROVE  \E len \in Bytes : d[len] = Zero /\ len <= e /\ \A i \in Bytes : i < len => d[i] # Zero
<1> DEFINE ends == {i \in Bytes : d[i] = Zero}
<1>1. ends \subseteq Nat /\ e \in ends
  BY BytesAre
<1>2. PICK m \in ends : \A y \in ends : m <= y
  <2> HIDE DEF ends
  <2> QED
    BY <1>1, Least
<1>3. \A i \in Bytes : i < m => d[i] # Zero
  <2> SUFFICES ASSUME NEW i \in Bytes, i < m, d[i] = Zero PROVE FALSE
    OBVIOUS
  <2>1. m <= i /\ i \in Nat /\ m \in Nat
    BY <1>1, <1>2
  <2> QED
    BY <2>1
<1> QED
  BY <1>1, <1>2, <1>3

LEMMA TextIs ==
    ASSUME NEW copy \in Copies
    PROVE  TextOf(copy) \in Seq(Char) /\ Len(TextOf(copy)) \in Nat /\ Len(TextOf(copy)) <= ROWS * COLS
<1>1. ROWS * COLS \in 0..ROWS * COLS
  BY Shape
<1>2. TextOf(copy) \in Seq(Char) /\ Len(TextOf(copy)) <= ROWS * COLS
  BY <1>1, ReadsText DEF TextOf
<1> QED
  BY <1>2, LenProperties

LEMMA SavedIs ==
    ASSUME NEW copy \in Copies, disk \in Disks
    PROVE  /\ Saved(copy) \in Disks
           /\ \A i \in Bytes : /\ i < Len(TextOf(copy)) => Saved(copy)[i] = TextOf(copy)[i + 1]
                               /\ i < Len(TextOf(copy)) => Saved(copy)[i] \in Char
                               /\ i >= Len(TextOf(copy)) => Saved(copy)[i] = disk[i]
<1> DEFINE t == TextOf(copy)
<1>1. t \in Seq(Char) /\ Len(t) \in Nat
  BY TextIs
<1>2. Saved(copy) = [i \in Bytes |-> IF i < Len(t) THEN t[i + 1] ELSE disk[i]]
  BY DEF Saved
<1> HIDE DEF t
<1>3. ASSUME NEW i \in Bytes
      PROVE  /\ i < Len(t) => t[i + 1] \in Char
             /\ i >= Len(t) => ~(i < Len(t))
  <2>1. i \in Nat
    BY BytesAre
  <2>2. i < Len(t) => i + 1 \in 1..Len(t)
    BY <1>1, <2>1
  <2>3. t \in [1..Len(t) -> Char]
    BY <1>1, LenProperties
  <2> QED
    BY <1>1, <2>1, <2>2, <2>3
<1>4. Saved(copy) \in Disks
  <2>1. ASSUME NEW i \in Bytes PROVE (IF i < Len(t) THEN t[i + 1] ELSE disk[i]) \in Char \cup {Zero}
    BY <1>3 DEF Disks
  <2> QED
    BY <1>2, <2>1 DEF Disks
<1>5. \A i \in Bytes : /\ i < Len(t) => Saved(copy)[i] = t[i + 1]
                       /\ i < Len(t) => Saved(copy)[i] \in Char
                       /\ i >= Len(t) => Saved(copy)[i] = disk[i]
  BY <1>2, <1>3
<1> QED
  BY <1>4, <1>5 DEF t

-----------------------------------------------------------------------------
(* Opening and leaving. *)

NoMishap == mishap \cap {"outside", "rows"} = {}

LEMMA HereIs == ASSUME Types PROVE Row \in Int /\ Row * COLS \in Int /\ Here \in Int /\ c_x \in Int
<1>1. c_x \in Int /\ Row \in Int
  BY Shape DEF Types, Row
<1>2. Row * COLS \in Int
  BY <1>1, RowAfter
<1> QED
  BY <1>1, <1>2 DEF Here

LEMMA Opening == ASSUME IInv, Open PROVE IInv'
<1> DEFINE text == StringOn(disk)
           lay == Layout(text)
<1>1. Types /\ DiskOK /\ RoundTrip
  BY DEF IInv
<1>2. /\ file_copy' = lay.copy /\ file_ln' = lay.ln /\ was' = text
      /\ mishap' = (IF lay.outside THEN mishap \cup {"rows"} ELSE mishap)
      /\ c_x' = 0 /\ c_y' = 0 /\ offset' = 0 /\ open' = TRUE /\ run' = {}
      /\ disk' = disk /\ typed' = typed /\ saved' = saved
  BY DEF Open
<1>3. text \in Seq(Char)
  <2>1. FileRoom + ROWS * COLS \in Bytes
    BY Shape DEF Bytes
  <2>2. disk \in Disks /\ disk[FileRoom + ROWS * COLS] = Zero
    BY <1>1 DEF Types, DiskOK, Disks
  <2> QED
    BY <2>1, <2>2, StringHas, StringEnds
<1> HIDE DEF text
<1>4. lay.copy \in Copies /\ lay.ln \in Nat /\ (~lay.outside => TextOf(lay.copy) = text)
  BY <1>3, LayoutIs
<1>5. /\ "too long" \notin mishap' => "too long" \notin mishap
      /\ NoMishap' => ~lay.outside
  BY <1>2 DEF NoMishap
<1> HIDE DEF lay
<1>6. Types'
  BY <1>1, <1>2, <1>4, Shape DEF Types, Copies
<1>7. DiskOK'
  BY <1>1, <1>2 DEF DiskOK, text
<1>8. CursorOK'
  <2>1. c_y' <= Low + 4 /\ offset' <= 0 /\ ~(offset' < 0)
    BY <1>2, Shape
  <2> QED
    BY <2>1 DEF CursorOK
<1>9. RunOK'
  <2>1. "wrapped" \notin mishap' => "lost" \notin mishap'
    BY <1>2 DEF IInv, RunOK
  <2> QED
    BY <1>2, <2>1 DEF RunOK
<1>10. RoundTrip'
  BY <1>1, <1>2, <1>4, <1>5 DEF RoundTrip, NoMishap
<1> QED
  BY <1>6, <1>7, <1>8, <1>9, <1>10 DEF IInv

\* The text is what a later opening reads (vim.c:30-41, 47-53).
LEMMA Leaving == ASSUME IInv, NoMishap, Esc PROVE IInv'
<1> DEFINE text == TextOf(file_copy)
           far == FileRoom + ROWS * COLS
<1>1. Types /\ DiskOK /\ CursorOK /\ RunOK /\ RoundTrip
  BY DEF IInv
<1>2. /\ disk' = Saved(file_copy)
      /\ mishap' = (IF Len(text) > FileRoom THEN mishap \cup {"too long"} ELSE mishap)
      /\ open /\ open' = FALSE /\ saved' = TRUE
      /\ file_copy' = file_copy /\ c_x' = c_x /\ c_y' = c_y /\ offset' = offset
      /\ file_ln' = file_ln /\ typed' = typed /\ run' = run /\ was' = was
  BY DEF Esc, cursor
<1>3. disk \in Disks /\ file_copy \in Copies
  BY <1>1 DEF Types, Disks, Copies
<1>4. text \in Seq(Char) /\ Len(text) \in Nat /\ Len(text) <= ROWS * COLS
  BY <1>3, TextIs
<1>5. /\ disk' \in Disks
      /\ \A i \in Bytes : /\ i < Len(text) => disk'[i] = text[i + 1] /\ disk'[i] \in Char
                          /\ i >= Len(text) => disk'[i] = disk[i]
  BY <1>2, <1>3, SavedIs
<1> HIDE DEF text
<1>6. Zero \notin Char
  BY TextAssumption
<1>7. far \in Bytes /\ far \in Nat /\ far >= Len(text) /\ FileRoom < far /\ disk[far] = Zero
  BY <1>1, <1>4, Shape DEF Bytes, DiskOK
<1>8. Types'
  BY <1>1, <1>2, <1>5 DEF Types, Disks
<1>9. DiskOK'
  <2>1. disk'[far] = Zero
    BY <1>5, <1>7
  <2>2. ASSUME NEW i \in Bytes, NEW j \in Bytes, i < j, j < FileRoom, disk'[i] = Zero
        PROVE  disk'[j] = Zero
    <3>1. i \in Nat /\ j \in Nat
      BY BytesAre
    <3>2. i >= Len(text)
      BY <1>4, <1>5, <1>6, <2>2, <3>1
    <3>3. j >= Len(text)
      BY <1>4, <2>2, <3>1, <3>2
    <3> QED
      BY <1>1, <1>5, <2>2, <3>2, <3>3 DEF DiskOK
  <2> QED
    BY <1>2, <2>1, <2>2 DEF DiskOK
<1>10. CursorOK'
  BY <1>1, <1>2 DEF CursorOK
<1>11. RunOK'
  <2>1. /\ "wrapped" \notin mishap' => "wrapped" \notin mishap
        /\ "lost" \notin mishap => "lost" \notin mishap'
    BY <1>2
  <2> QED
    BY <1>1, <1>2, <2>1 DEF RunOK, Here, Row
<1>12. ASSUME Len(text) >= Len(was), Len(text) < FileRoom PROVE StringOn(disk') = text
  <2>1. PICK l \in Bytes : disk[l] = Zero /\ \A i \in Bytes : i < l => disk[i] # Zero
    BY <1>3, <1>7, StringHas
  <2>2. Len(was) = l
    <3>1. was = StringOn(disk)
      BY <1>1, <1>2 DEF DiskOK
    <3> QED
      BY <1>3, <2>1, <3>1, StringEnds
  <2> DEFINE n == Len(text)
  <2>3. n \in Bytes /\ l \in Nat /\ l <= n /\ n < FileRoom /\ n \in Nat
    BY <1>4, <1>12, <2>2, BytesAre, Shape DEF Bytes
  <2> HIDE DEF n
  <2>4. disk[n] = Zero
    BY <1>1, <2>1, <2>3 DEF DiskOK
  <2>5. disk'[n] = Zero
    BY <1>5, <2>3, <2>4 DEF n
  <2>6. \A i \in Bytes : i < n => disk'[i] # Zero /\ disk'[i] = text[i + 1]
    BY <1>5, <1>6 DEF n
  <2>7. StringOn(disk') = [i \in 1..n |-> disk'[i - 1]]
    BY <1>5, <2>3, <2>5, <2>6, StringEnds
  <2>8. ASSUME NEW i \in 1..n PROVE disk'[i - 1] = text[i]
    <3>1. i - 1 \in Bytes /\ i - 1 < n /\ (i - 1) + 1 = i
      BY <2>3, Shape DEF Bytes
    <3> QED
      BY <2>6, <3>1
  <2>9. text = [i \in 1..n |-> text[i]]
    BY <1>4, LenProperties DEF n
  <2> QED
    BY <2>7, <2>8, <2>9
<1>13. ASSUME "too long" \notin mishap'
       PROVE  \A i \in FileRoom..FileRoom + 1 : disk'[i] = NextFile
  <2>1. Len(text) <= FileRoom /\ mishap' = mishap
    <3>1. ~(Len(text) > FileRoom) /\ mishap' = mishap
      BY <1>2, <1>13
    <3> QED
      BY <1>4, <3>1, Shape
  <2> TAKE i \in FileRoom..FileRoom + 1
  <2>2. i \in Bytes /\ i >= Len(text)
    BY <1>4, <2>1, Shape DEF Bytes
  <2>3. disk[i] = NextFile
    BY <1>1, <1>13, <2>1 DEF RoundTrip, NoMishap
  <2> QED
    BY <1>5, <2>2, <2>3
<1>14. RoundTrip'
  <2>1. text = TextOf(file_copy')
    BY <1>2 DEF text
  <2> QED
    BY <1>2, <1>12, <1>13, <2>1 DEF RoundTrip
<1> QED
  BY <1>8, <1>9, <1>10, <1>11, <1>14 DEF IInv

-----------------------------------------------------------------------------
(* The keys. *)

\* What no key of the cursor changes.
LEMMA ArrowKeeps ==
    ASSUME IInv, Arrow, UNCHANGED mishap,
           c_x' \in 0..COLS, c_y' \in Nat, offset' \in Int, CursorOK'
    PROVE  IInv'
<1>1. /\ run' = {} /\ disk' = disk /\ file_copy' = file_copy /\ file_ln' = file_ln /\ open' = open
      /\ typed' = typed /\ was' = was /\ saved' = saved /\ mishap' = mishap
  BY DEF Arrow
<1>2. Types'
  BY <1>1 DEF IInv, Types
<1>3. DiskOK'
  BY <1>1 DEF IInv, DiskOK
<1>4. RunOK'
  BY <1>1 DEF IInv, RunOK
<1>5. RoundTrip'
  BY <1>1 DEF IInv, RoundTrip
<1> QED
  BY <1>2, <1>3, <1>4, <1>5 DEF IInv

LEMMA GoUp == ASSUME IInv, Up PROVE IInv'
<1>1. Arrow /\ c_x' = c_x /\ UNCHANGED mishap /\ file_ln' = file_ln /\ typed' = typed
  BY DEF Up, Arrow
<1>2. /\ c_x \in 0..COLS /\ c_y \in Nat /\ offset \in Int /\ file_ln \in Nat /\ typed \in Nat
      /\ CursorOK
  BY DEF IInv, Types
<1>3. CASE c_y > High /\ c_y' = c_y - 1 /\ offset' = offset
  <2>1. c_y' \in Nat /\ c_y' >= High /\ c_y' <= c_y
    BY <1>2, <1>3, Shape
  <2>2. CursorOK'
    BY <1>1, <1>2, <1>3, <2>1, Shape DEF CursorOK
  <2> QED
    BY <1>1, <1>2, <1>3, <2>1, <2>2, ArrowKeeps
<1>4. CASE c_y <= High /\ offset > 0 /\ offset' = offset - 1 /\ c_y' = c_y
  <2>1. offset' \in Int /\ ~(offset' < 0)
    BY <1>2, <1>4
  <2>2. CursorOK'
    BY <1>1, <1>2, <1>4, <2>1, Shape DEF CursorOK
  <2> QED
    BY <1>1, <1>2, <1>4, <2>1, <2>2, ArrowKeeps
<1>5. CASE c_y <= High /\ offset <= 0 /\ c_y > 0 /\ offset' = 0 /\ c_y' = c_y - 1
  <2>1. c_y' \in Nat /\ c_y' <= c_y
    BY <1>2, <1>5
  <2>2. CursorOK'
    BY <1>1, <1>2, <1>5, <2>1, Shape DEF CursorOK
  <2> QED
    BY <1>1, <1>2, <1>5, <2>1, <2>2, ArrowKeeps
<1> QED
  BY <1>3, <1>4, <1>5 DEF Up

LEMMA GoDown == ASSUME IInv, Down PROVE IInv'
<1>1. Arrow /\ c_x' = c_x /\ UNCHANGED mishap /\ file_ln' = file_ln /\ typed' = typed
  BY DEF Down, Arrow
<1>2. /\ c_x \in 0..COLS /\ c_y \in Nat /\ offset \in Int /\ file_ln \in Nat /\ typed \in Nat
      /\ CursorOK
  BY DEF IInv, Types
<1>3. CASE c_y < Low /\ c_y' = c_y + 1 /\ offset' = offset
  <2>1. c_y' \in Nat /\ c_y' >= c_y /\ c_y' <= Low + 4
    BY <1>2, <1>3, Shape
  <2>2. CursorOK'
    BY <1>1, <1>2, <1>3, <2>1, Shape DEF CursorOK
  <2> QED
    BY <1>1, <1>2, <1>3, <2>1, <2>2, ArrowKeeps
<1>4. CASE c_y >= Low /\ offset < file_ln - (Low + 1) /\ offset' = offset + 1 /\ c_y' = c_y
  <2>1. offset' \in Int /\ ~(offset' < 0) /\ offset' <= file_ln - (Low + 1)
    BY <1>2, <1>4, Shape DEF CursorOK
  <2>2. CursorOK'
    BY <1>1, <1>2, <1>4, <2>1, Shape DEF CursorOK
  <2> QED
    BY <1>1, <1>2, <1>4, <2>1, <2>2, ArrowKeeps
<1>5. CASE /\ c_y >= Low /\ offset >= file_ln - (Low + 1) /\ c_y <= Low + 3
           /\ offset' = file_ln - (Low + 1) /\ c_y' = c_y + 1
  <2>1. c_y' \in Nat /\ c_y' <= Low + 4 /\ c_y' >= High /\ offset' \in Int
    BY <1>2, <1>5, Shape
  <2>2. CursorOK'
    BY <1>1, <1>2, <1>5, <2>1, Shape DEF CursorOK
  <2> QED
    BY <1>1, <1>2, <2>1, <2>2, ArrowKeeps
<1> QED
  BY <1>3, <1>4, <1>5 DEF Down

LEMMA GoAside == ASSUME IInv, Right \/ Left PROVE IInv'
<1>1. /\ Arrow /\ c_y' = c_y /\ offset' = offset /\ UNCHANGED mishap /\ file_ln' = file_ln /\ typed' = typed
      /\ \/ c_x < COLS - 1 /\ c_x' = c_x + 1
         \/ c_x > 0 /\ c_x' = c_x - 1
  BY DEF Right, Left, Arrow
<1>2. c_x \in 0..COLS /\ c_y \in Nat /\ offset \in Int /\ CursorOK
  BY DEF IInv, Types
<1>3. c_x' \in 0..COLS
  BY <1>1, <1>2, Shape
<1>4. CursorOK'
  BY <1>1, <1>2 DEF CursorOK
<1> QED
  BY <1>1, <1>2, <1>3, <1>4, ArrowKeeps

\* Typing: the cell behind the last one that was typed into, but at the end of
\* a line that is too long (vim.c:92-104).
LEMMA Typing == ASSUME IInv, NEW c \in Char \cup {Zero}, Type(c) PROVE IInv'
<1>1. /\ disk' = disk /\ offset' = offset /\ file_ln' = file_ln /\ open' = open /\ was' = was /\ saved' = saved
      /\ file_copy' = [i \in Cells |-> IF i = Here THEN c ELSE file_copy[i]]
      /\ Advance(c) /\ typed' = typed + 1 /\ run' = run \cup {Here} /\ open
      /\ mishap' = mishap \cup (IF Here \notin Cells THEN {"outside"} ELSE {})
                          \cup (IF Here \in run THEN {"lost"} ELSE {})
                          \cup (IF c_x = COLS THEN {"wrapped"} ELSE {})
  BY DEF Type
<1>2. Types /\ DiskOK /\ CursorOK /\ RunOK /\ RoundTrip
  BY DEF IInv
<1>3. /\ c_x \in 0..COLS /\ c_y \in Nat /\ offset \in Int /\ file_ln \in Nat /\ typed \in Nat
      /\ file_copy \in Copies /\ run \subseteq Int
  BY <1>2 DEF Types, Copies
<1>4. Row \in Int /\ Row * COLS \in Int /\ Here \in Int /\ c_x \in Int
  BY <1>2, HereIs
<1>5. /\ c_x' \in 0..COLS /\ c_y' \in {c_y, c_y + 1}
      /\ c_x # COLS => \/ c_y' = c_y /\ c_x' = c_x + 1
                       \/ c_y' = c_y + 1 /\ c_x' = 1
  BY <1>1, <1>3, Shape DEF Advance
<1>6. file_copy' \in Copies
  <2> HIDE DEF Here
  <2> QED
    BY <1>1, <1>3 DEF Copies
<1>7. Types'
  <2>1. c_y' \in Nat /\ typed' \in Nat /\ run' \subseteq Int
    BY <1>1, <1>3, <1>4, <1>5
  <2> QED
    BY <1>1, <1>2, <1>5, <1>6, <2>1 DEF Types, Copies
<1>8. DiskOK'
  BY <1>1, <1>2 DEF DiskOK
<1>9. CursorOK'
  <2>1. c_y' >= c_y /\ typed' # 0 /\ c_y' \in Nat
    BY <1>1, <1>3, <1>5
  <2> QED
    BY <1>1, <1>2, <1>3, <2>1, Shape DEF CursorOK
<1>10. RunOK'
  <2> SUFFICES ASSUME "wrapped" \notin mishap'
               PROVE  "lost" \notin mishap' /\ \A i \in run' : i < Here'
    BY DEF RunOK
  <2>1. "wrapped" \notin mishap /\ c_x # COLS
    BY <1>1
  <2>2. "lost" \notin mishap /\ \A i \in run : i < Here
    BY <1>2, <2>1 DEF RunOK
  <2>3. Here \notin run
    BY <1>4, <2>2
  <2>4. "lost" \notin mishap'
    BY <1>1, <2>2, <2>3
  <2>5. Here < Here' /\ Here' \in Int
    <3> DEFINE m == Row * COLS
    <3>1. Here = m + c_x
      BY DEF Here
    <3>2. CASE c_y' = c_y /\ c_x' = c_x + 1
      <4>1. Row' = Row
        BY <1>1, <3>2 DEF Row
      <4>2. Here' = m + (c_x + 1)
        BY <3>2, <4>1 DEF Here
      <4> HIDE DEF m
      <4> QED
        BY <1>4, <3>1, <4>2 DEF m
    <3>3. CASE c_y' = c_y + 1 /\ c_x' = 1
      <4>1. Row' = Row + 1
        BY <1>1, <1>3, <3>3 DEF Row
      <4>2. Here' = (Row + 1) * COLS + 1
        BY <3>3, <4>1 DEF Here
      <4>3. (Row + 1) * COLS = m + COLS
        BY <1>4, RowAfter
      <4>4. m \in Int /\ c_x <= COLS /\ COLS \in Int
        BY <1>3, <1>4, Shape
      <4> HIDE DEF m
      <4> QED
        BY <1>4, <3>1, <4>2, <4>3, <4>4
    <3> QED
      BY <1>5, <2>1, <3>2, <3>3
  <2>6. ASSUME NEW i \in run' PROVE i < Here'
    <3>1. i \in run \/ i = Here
      BY <1>1
    <3>2. i = Here \/ (i < Here /\ i \in Int)
      BY <1>3, <2>2, <3>1
    <3> DEFINE h == Here
    <3>3. h \in Int /\ (i = h \/ (i < h /\ i \in Int)) /\ h < Here' /\ Here' \in Int
      BY <1>4, <2>5, <3>2
    <3> HIDE DEF h
    <3> QED
      BY <3>3
  <2> QED
    BY <2>4, <2>6
<1>11. RoundTrip'
  <2>1. typed' # 0
    BY <1>1, <1>3
  <2>2. /\ mishap' \cap {"outside", "rows"} = {} => mishap \cap {"outside", "rows"} = {}
        /\ "too long" \notin mishap' => "too long" \notin mishap
    BY <1>1
  <2> QED
    BY <1>1, <1>2, <2>1, <2>2 DEF RoundTrip
<1> QED
  BY <1>7, <1>8, <1>9, <1>10, <1>11 DEF IInv

-----------------------------------------------------------------------------
(* The theorems. *)

LEMMA Initially == Init => IInv
<1> SUFFICES ASSUME Init PROVE IInv
  OBVIOUS
<1>1. PICK text \in Texts :
        disk = [i \in Bytes |-> IF i < Len(text) THEN text[i + 1]
                                ELSE IF i \in FileRoom..FileRoom + 1 THEN NextFile
                                ELSE Zero]
  BY DEF Init
<1>2. /\ file_copy = Empty /\ c_x = 0 /\ c_y = 0 /\ offset = 0 /\ file_ln = 0
      /\ open = FALSE /\ typed = 0 /\ run = {} /\ saved = FALSE /\ mishap = {}
  BY DEF Init
<1>3. text \in Seq(Char) /\ Len(text) \in Nat /\ Len(text) <= FileRoom /\ text \in [1..Len(text) -> Char]
  BY TextAssumption, LenProperties
<1>4. NextFile \in Char /\ Zero \notin Char
  <2>1. \E c \in Char : c # NewLine
    BY TextAssumption
  <2> QED
    BY <2>1, TextAssumption DEF NextFile
<1>5. ASSUME NEW i \in Bytes
      PROVE  /\ i \in Nat
             /\ i < Len(text) => disk[i] = text[i + 1] /\ disk[i] \in Char
             /\ i >= Len(text) /\ i \in FileRoom..FileRoom + 1 => disk[i] = NextFile
             /\ i >= Len(text) /\ i \notin FileRoom..FileRoom + 1 => disk[i] = Zero
  <2>1. i \in Nat
    BY BytesAre
  <2>2. i < Len(text) => i + 1 \in 1..Len(text)
    BY <1>3, <2>1
  <2>3. i >= Len(text) => ~(i < Len(text))
    BY <1>3, <2>1
  <2> QED
    BY <1>1, <1>3, <2>1, <2>2, <2>3
<1>6. disk \in Disks
  <2>1. ASSUME NEW i \in Bytes PROVE disk[i] \in Char \cup {Zero}
    <3>1. i < Len(text) \/ i >= Len(text)
      BY <1>3, BytesAre
    <3> QED
      BY <1>4, <1>5, <3>1
  <2>2. disk = [i \in Bytes |-> disk[i]]
    BY <1>1
  <2> QED
    BY <2>1, <2>2 DEF Disks
<1>7. Types
  <2>1. file_copy \in Copies
    BY <1>2 DEF Empty, Copies
  <2>2. c_x \in 0..COLS
    BY <1>2, Shape
  <2>3. open \in BOOLEAN /\ saved \in BOOLEAN
    BY <1>2
  <2>4. c_y \in Nat /\ offset \in Int /\ file_ln \in Nat /\ typed \in Nat /\ run \subseteq Int
    BY <1>2
  <2> QED
    BY <1>6, <2>1, <2>2, <2>3, <2>4 DEF Types, Disks, Copies
<1>8. DiskOK
  <2> DEFINE far == FileRoom + ROWS * COLS
  <2>1. far \in Bytes /\ far > FileRoom + 1 /\ far \in Nat /\ FileRoom \in Nat
    BY Shape DEF Bytes
  <2>2. far >= Len(text) /\ far \notin FileRoom..FileRoom + 1
    <3> HIDE DEF far
    <3> QED
      BY <1>3, <2>1
  <2>3. disk[far] = Zero
    <3> HIDE DEF far
    <3> QED
      BY <1>5, <2>1, <2>2
  <2>4. ASSUME NEW i \in Bytes, NEW j \in Bytes, i < j, j < FileRoom, disk[i] = Zero
        PROVE  disk[j] = Zero
    <3>1. i \in Nat /\ j \in Nat
      BY BytesAre
    <3>2. i >= Len(text)
      BY <1>3, <1>4, <1>5, <2>4, <3>1
    <3>3. j >= Len(text) /\ j \notin FileRoom..FileRoom + 1
      BY <1>3, <2>1, <2>4, <3>1, <3>2
    <3> QED
      BY <1>5, <3>3
  <2> QED
    BY <1>2, <2>3, <2>4 DEF DiskOK
<1>9. CursorOK /\ RunOK
  BY <1>2, Shape DEF CursorOK, RunOK
<1>10. RoundTrip
  <2>1. ASSUME NEW i \in FileRoom..FileRoom + 1 PROVE disk[i] = NextFile
    <3>1. i \in Bytes /\ i >= Len(text)
      BY <1>3, Shape DEF Bytes
    <3> QED
      BY <1>5, <3>1
  <2> QED
    BY <1>2, <2>1 DEF RoundTrip
<1> QED
  BY <1>7, <1>8, <1>9, <1>10 DEF IInv

LEMMA Step == IInv /\ [Next]_vars => IInv'
<1> SUFFICES ASSUME IInv, [Next]_vars PROVE IInv'
  OBVIOUS
<1>1. CASE Next
  <2>1. NoMishap
    BY <1>1 DEF Next, NoMishap
  <2>2. CASE Open
    BY <2>2, Opening
  <2>3. CASE Esc
    BY <2>1, <2>3, Leaving
  <2>4. CASE Up
    BY <2>4, GoUp
  <2>5. CASE Down
    BY <2>5, GoDown
  <2>6. CASE Right \/ Left
    BY <2>6, GoAside
  <2>7. CASE \E c \in Char \cup {Zero} : Type(c)
    BY <2>7, Typing
  <2> QED
    BY <1>1, <2>2, <2>3, <2>4, <2>5, <2>6, <2>7 DEF Next
<1>2. CASE UNCHANGED vars
  BY <1>2 DEF vars, cursor, IInv, Types, DiskOK, CursorOK, RunOK, RoundTrip, Here, Row
<1> QED
  BY <1>1, <1>2

\* The inductive invariant holds however texts are opened, changed and saved.
THEOREM Invariant == Spec => []IInv
<1> QED
  BY Initially, Step, PTL DEF Spec

\* For every text and every screen, the cursor is above the copy only in a text
\* shorter than the screen and as far as the margin, and as long as nothing was
\* typed it stays within the first Low + 4 rows or three rows below the text
\* (vim.c:54-79).
THEOREM CursorStays == Spec => []CursorNearText
<1>1. IInv => CursorNearText
  <2> SUFFICES ASSUME IInv PROVE CursorNearText
    OBVIOUS
  <2>1. c_y \in Nat /\ offset \in Int /\ file_ln \in Nat /\ CursorOK
    BY DEF IInv, Types
  <2>2. ASSUME Row < 0 PROVE file_ln < Low + 1 - High /\ offset < 0 /\ Row >= file_ln - (Low + 1) + High
    <3>1. offset < 0
      BY <2>1, <2>2 DEF Row
    <3>2. offset = file_ln - (Low + 1) /\ c_y >= High
      BY <2>1, <3>1 DEF CursorOK
    <3> QED
      BY <2>1, <2>2, <3>1, <3>2, Shape DEF Row
  <2>3. ASSUME typed = 0 PROVE Row <= Low + 4 \/ Row <= file_ln + 3
    BY <2>1, <2>3, Shape DEF Row, CursorOK
  <2> QED
    BY <2>2, <2>3 DEF CursorNearText
<1> QED
  BY <1>1, Invariant, PTL

\* What is loaded would be saved as it was, what was saved is what is loaded,
\* and the next file is left alone, for every text (vim.c:30-41, 114-142).
THEOREM TextRoundTrips == Spec => []RoundTrip
<1>1. IInv => RoundTrip
  BY DEF IInv
<1> QED
  BY <1>1, Invariant, PTL

\* Only in a line that is too long does typing go over what was typed just
\* before (vim.c:93-103).
THEOREM TypingStays == Spec => []TypedStays
<1>1. IInv => TypedStays
  BY DEF IInv, RunOK, TypedStays
<1> QED
  BY <1>1, Invariant, PTL
=============================================================================
