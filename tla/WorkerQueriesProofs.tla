------------------------- MODULE WorkerQueriesProofs -------------------------
(***************************************************************************)
(* Theorems about WorkerQueries and RetryPolicy.                            *)
(***************************************************************************)
EXTENDS WorkerQueries, QueryResultProofs

-----------------------------------------------------------------------------
(* The wait of one answer.                                                  *)

\* A power of a whole number is a whole number.
LEMMA PowerType ==
  ASSUME NEW base \in Int, NEW n \in Nat
  PROVE  Power(base, n) \in Int
<1> DEFINE Is(f) == f = [k \in Nat |-> IF k = 0 THEN 1 ELSE base * f[k - 1]]
<1>1. \E f : Is(f)
  <2> DEFINE S == Int
             one == 1
             step == [k \in Nat |-> [m \in S |-> base * m]]
             f == Iterated(S, one, step)
  <2>1. one \in S /\ step \in [Nat -> [S -> S]] /\ \A k \in Nat, m \in Int : step[k][m] = base * m
    OBVIOUS
  <2> HIDE DEF S, one, step
  <2>2. f \in [Nat -> S] /\ f[0] = one /\ \A k \in Nat : f[k + 1] = step[k][f[k]]
    BY <2>1, Recursion
  <2> HIDE DEF f
  <2>3. f \in [Nat -> Int] /\ f[0] = 1 /\ \A k \in Nat : f[k + 1] = base * f[k]
    BY <2>1, <2>2 DEF S, one
  <2>4. ASSUME NEW k \in Nat
        PROVE  f[k] = IF k = 0 THEN 1 ELSE base * f[k - 1]
    <3>1. CASE k = 0
      BY <2>3, <3>1
    <3>2. CASE k # 0
      <4>1. k - 1 \in Nat /\ (k - 1) + 1 = k
        BY <3>2
      <4>2. f[k] = base * f[k - 1]
        BY <2>3, <4>1
      <4> QED
        BY <3>2, <4>2
    <3> QED
      BY <3>1, <3>2
  <2>5. Is(f)
    BY <2>3, <2>4
  <2> QED
    BY <2>5
<1> DEFINE power == CHOOSE g : Is(g)
<1>2. Is(power)
  BY <1>1
<1>3. Power(base, n) = power[n]
  BY DEF Power
<1> HIDE DEF power
<1> DEFINE T == {k \in Nat : power[k] \in Int}
<1>4. 0 \in T
  BY <1>2
<1>5. ASSUME NEW k \in Nat, k \in T
      PROVE  k + 1 \in T
  <2>1. power[k + 1] = base * power[k]
    BY <1>2
  <2> QED
    BY <2>1, <1>5
<1> HIDE DEF T
<1>6. Nat \subseteq T
  BY <1>4, <1>5, Induct
<1> QED
  BY <1>3, <1>6 DEF T

\* A fraction between two whole numbers is still between them when it was cut.
LEMMA TruncatedBetween ==
  ASSUME NEW d \in Nat \ {0}, NEW low \in Int, NEW high \in Int, NEW n \in Int,
         low * d <= n, n <= high * d
  PROVE  Truncated(n, d) \in Int /\ low <= Truncated(n, d) /\ Truncated(n, d) <= high
<1>1. CASE n >= 0
  <2> DEFINE q == n \div d
  <2>1. q \in Int /\ d * q <= n /\ n < d * q + d
    BY <1>1
  <2>2. Truncated(n, d) = q
    BY <1>1 DEF Truncated
  <2> HIDE DEF q
  <2>3. low * d < (q + 1) * d /\ q * d <= high * d
    BY <2>1
  <2>4. low < q + 1 /\ q < high + 1
    BY <2>1, <2>3
  <2> QED
    BY <2>1, <2>2, <2>4
<1>2. CASE n < 0
  <2> DEFINE q == (-n) \div d
  <2>1. q \in Int /\ d * q <= -n /\ -n < d * q + d
    BY <1>2
  <2>2. Truncated(n, d) = -q
    BY <1>2 DEF Truncated
  <2> HIDE DEF q
  <2>3. (low + q) * d <= 0 /\ 0 < (q + 1) * d
    BY <1>2, <2>1
  <2>4. low + q <= 0 /\ 0 < q + 1
    BY <2>1, <2>3
  <2> QED
    BY <2>1, <2>2, <2>4
<1> QED
  BY <1>1, <1>2

\* A part of the jitter is between nothing and all of it.
LEMMA PartOfJitter ==
  ASSUME NEW j \in Int, NEW d \in Nat \ {0}, NEW f \in 0 .. d - 1
  PROVE  /\ f * j \in Int
         /\ j >= 0 => 0 <= f * j /\ f * j <= j * d
         /\ j < 0 => j * d <= f * j /\ f * j <= 0
<1>1. f \in Nat /\ d - f \in Nat /\ f * j \in Int /\ (d - f) * j \in Int
  OBVIOUS
<1>2. j * d = f * j + (d - f) * j
  BY <1>1
<1>3. j >= 0 => f * j >= 0 /\ (d - f) * j >= 0
  BY <1>1
<1>4. j < 0 => f * j <= 0 /\ (d - f) * j <= 0
  BY <1>1
<1> QED
  BY <1>1, <1>2, <1>3, <1>4

\* A whole number and a part of j, or of -j, are between it and all of it.
LEMMA JitterBetween ==
  ASSUME NEW d \in Nat \ {0}, NEW m \in Int, NEW j \in Int, NEW x \in Int,
         \/ 0 <= x /\ x <= j * d
         \/ j * d <= x /\ x <= 0
  PROVE  Truncated(m * d + x, d) \in Int /\ Between(m, m + j, Truncated(m * d + x, d))
<1> DEFINE n == m * d + x
           w == Truncated(n, d)
<1>1. n \in Int /\ m + j \in Int /\ (m + j) * d = m * d + j * d /\ m * d \in Int /\ j * d \in Int
  OBVIOUS
<1>2. CASE 0 <= x /\ x <= j * d
  <2>1. m * d <= n /\ n <= (m + j) * d
    BY <1>1, <1>2
  <2> HIDE DEF n
  <2>2. w \in Int /\ m <= w /\ w <= m + j
    BY <1>1, <2>1, TruncatedBetween
  <2> QED
    BY <2>2 DEF Between, n
<1>3. CASE j * d <= x /\ x <= 0
  <2>1. (m + j) * d <= n /\ n <= m * d
    BY <1>1, <1>3
  <2> HIDE DEF n
  <2>2. w \in Int /\ m + j <= w /\ w <= m
    BY <1>1, <2>1, TruncatedBetween
  <2> QED
    BY <2>2 DEF Between, n
<1> QED
  BY <1>2, <1>3

\* The two ways in which a jitter is used.
LEMMA Jittered ==
  ASSUME NEW d \in Nat \ {0}, NEW m \in Int, NEW j \in Int, NEW f \in 0 .. d - 1
  PROVE  /\ Truncated(m * d + f * j, d) \in Int
         /\ Between(m, m + j, Truncated(m * d + f * j, d))
         /\ Truncated(m * d - f * j, d) \in Int
         /\ Between(m - j, m, Truncated(m * d - f * j, d))
<1> DEFINE x == f * j
           y == j * d
           i == -j
<1>1. x \in Int /\ y \in Int /\ ((0 <= x /\ x <= y) \/ (y <= x /\ x <= 0))
  <2>1. j >= 0 \/ j < 0
    OBVIOUS
  <2> QED
    BY <2>1, PartOfJitter
<1>2. Truncated(m * d + x, d) \in Int /\ Between(m, m + j, Truncated(m * d + x, d))
  BY <1>1, JitterBetween
<1>3. i \in Int /\ i * d = -y /\ m + i = m - j
  OBVIOUS
<1>4. m * d \in Int
  OBVIOUS
<1> HIDE DEF x, y, i
<1>5. -x \in Int /\ ((0 <= -x /\ -x <= i * d) \/ (i * d <= -x /\ -x <= 0))
  BY <1>1, <1>3
<1>6. Truncated(m * d + (-x), d) \in Int /\ Between(m, m + i, Truncated(m * d + (-x), d))
  BY <1>3, <1>5, JitterBetween
<1>7. m * d + (-x) = m * d - x
  BY <1>1, <1>4
<1>8. Truncated(m * d - x, d) \in Int /\ Between(m, m - j, Truncated(m * d - x, d))
  BY <1>3, <1>6, <1>7
<1>9. Between(m - j, m, Truncated(m * d - x, d))
  BY <1>8 DEF Between
<1> QED
  BY <1>2, <1>8, <1>9 DEF x

\* Putting a policy into order leaves what it asks for alone.
LEMMA WaitOfOrderedPolicy ==
  ASSUME NEW p \in Policies, NEW count \in Nat \ {0}, NEW f \in 0 .. Fractions - 1
  PROVE  /\ RetryAfter(PutInOrder(p), count, f) \in Int
         /\ InBounds(p, count, RetryAfter(PutInOrder(p), count, f))
<1> DEFINE s == Asked(p, count)
           d == Fractions
           j == p.jitter
           o == PutInOrder(p)
           w == RetryAfter(o, count, f)
<1>1. p \in [interval : Int, jitter : Int, max : Int, factor : Int] /\ d \in Nat \ {0}
  BY PoliciesAssumption DEF RetryPolicies
<1>2. /\ o.factor = (IF p.factor = 0 THEN 2 ELSE p.factor) /\ o.interval = Least(p.interval, p.max)
      /\ o.max = p.max /\ o.jitter = j
  BY <1>1 DEF PutInOrder
<1>3. s \in Int /\ p.max \in Int /\ j \in Int
  <2>1. (IF p.factor = 0 THEN 2 ELSE p.factor) \in Int /\ count - 1 \in Nat
    BY <1>1
  <2>2. Power(IF p.factor = 0 THEN 2 ELSE p.factor, count - 1) \in Int
    BY <2>1, PowerType
  <2>3. Least(p.interval, p.max) \in Int
    BY <1>1 DEF Least
  <2> QED
    BY <1>1, <2>2, <2>3 DEF Asked
<1>4. w = IF s > p.max THEN Truncated(p.max * d - f * j, d) ELSE Truncated(s * d + f * j, d)
  BY <1>2 DEF RetryAfter, Asked
<1>5. InBounds(p, count, w) <=>
        IF s > p.max THEN Between(p.max - j, p.max, w) ELSE Between(s, s + j, w)
  BY DEF InBounds
<1> SUFFICES w \in Int /\ InBounds(p, count, w)
  OBVIOUS
<1> HIDE DEF s, o, w, j, d
<1>6. d \in Nat \ {0} /\ f \in 0 .. d - 1
  BY <1>1 DEF d
<1>7. CASE s > p.max
  <2>1. Truncated(p.max * d - f * j, d) \in Int /\ Between(p.max - j, p.max, Truncated(p.max * d - f * j, d))
    BY <1>3, <1>6, Jittered
  <2>2. w = Truncated(p.max * d - f * j, d)
    BY <1>4, <1>7
  <2> QED
    BY <1>5, <1>7, <2>1, <2>2
<1>8. CASE ~ (s > p.max)
  <2>1. Truncated(s * d + f * j, d) \in Int /\ Between(s, s + j, Truncated(s * d + f * j, d))
    BY <1>3, <1>6, Jittered
  <2>2. w = Truncated(s * d + f * j, d)
    BY <1>4, <1>8
  <2> QED
    BY <1>5, <1>8, <2>1, <2>2
<1> QED
  BY <1>7, <1>8

-----------------------------------------------------------------------------
(* The table of an answer.                                                  *)

\* The cells of a row of an answer, filled up, as they become JSON.
CellsOf(a) ==
  [i \in DOMAIN a.rows |->
    [j \in DOMAIN a.columns |->
      CellOf(IF j \in DOMAIN a.rows[i] THEN a.rows[i][j] ELSE Cell("text", Empty))]]

\* The tables that the answer of a plugin may become.
TablesOf(a) ==
  IF a.columns \notin {Nothing, <<>>} THEN {Table(a.columns, CellsOf(a))}
  ELSE IF Nothing \in ToSet(ToWire(a).lines) THEN {}
  ELSE TablesOfLines(ToWire(a).lines)

\* The tables that what a database has may become.
DatabaseTables ==
  UNION {{TableOfSQL(r.columns, SubSeq(r.rows, 1, n)) : n \in 0 .. Len(r.rows)} : r \in Results}

\* What each field of an answer may be.
LEMMA AnswerType ==
  ASSUME NEW a \in Answers
  PROVE  /\ a.columns \in Seq(Columns) \cup {Nothing}
         /\ a.rows \in Seq(Seq(Said)) /\ a.lines \in Seq(Lines \cup {Nothing})
  BY WorkerAssumption

\* The lines of an answer that are read are objects of JSON.
LEMMA LinesAreRead ==
  ASSUME NEW a \in Answers, a.columns \in {Nothing, <<>>}, Nothing \notin ToSet(ToWire(a).lines)
  PROVE  ToWire(a).lines \in Seq(Lines)
<1>1. CASE a.columns = Nothing
  <2> DEFINE s == ToWire(a).lines
  <2>1. s = a.lines /\ s \in Seq(Lines \cup {Nothing})
    BY <1>1, AnswerType DEF ToWire
  <2> HIDE DEF s
  <2>2. \A i \in 1 .. Len(s) : s[i] # Nothing
    BY <2>1 DEF s, ToSet
  <2>3. \A i \in 1 .. Len(s) : s[i] \in Lines
    BY <2>1, <2>2
  <2>4. s \in Seq(Lines)
    BY <2>1, <2>3
  <2> QED
    BY <2>4 DEF s
<1>2. CASE a.columns = <<>> /\ a.columns # Nothing
  BY <1>2 DEF ToWire
<1> QED
  BY <1>1, <1>2

\* Whatever an answer becomes is a table with rows as long as its columns.
LEMMA TableOfAnswer ==
  ASSUME NEW a \in Answers, NEW t \in TablesOf(a)
  PROVE  t \in Tables /\ \A i \in DOMAIN t.rows : Len(t.rows[i]) = Len(t.columns)
<1>1. CASE a.columns \notin {Nothing, <<>>}
  <2> DEFINE C == Len(a.columns)
             N == Len(a.rows)
             rows == CellsOf(a)
  <2>1. /\ a.columns \in Seq(Columns) /\ DOMAIN a.columns = 1 .. C /\ C \in Nat
        /\ a.rows \in Seq(Seq(Said)) /\ DOMAIN a.rows = 1 .. N /\ N \in Nat
    BY <1>1, AnswerType
  <2>2. ASSUME NEW text \in Said
        PROVE  CellOf(text) \in Cells
    BY DEF CellOf, Said, Cells, JSONCells, Cell
  <2>3. Cell("text", Empty) \in Said
    BY DEF Cell, Said
  <2>4. ASSUME NEW i \in 1 .. N, NEW j \in 1 .. C
        PROVE  rows[i][j] \in Cells
    <3>1. (IF j \in DOMAIN a.rows[i] THEN a.rows[i][j] ELSE Cell("text", Empty)) \in Said
      BY <2>1, <2>3
    <3> QED
      BY <2>1, <2>2, <3>1 DEF CellsOf
  <2>5. rows = [i \in 1 .. N |-> [j \in 1 .. C |-> rows[i][j]]]
    BY <2>1 DEF CellsOf
  <2>6. t = Table(a.columns, rows)
    BY <1>1 DEF TablesOf
  <2> HIDE DEF rows
  <2> QED
    BY <2>1, <2>4, <2>5, <2>6, TableOfRows
<1>2. CASE a.columns \in {Nothing, <<>>}
  <2>1. Nothing \notin ToSet(ToWire(a).lines) /\ t \in TablesOfLines(ToWire(a).lines)
    BY <1>2 DEF TablesOf
  <2>2. ToWire(a).lines \in Seq(Lines)
    BY <1>2, <2>1, LinesAreRead
  <2> QED
    BY <2>1, <2>2, TableOfLines
<1> QED
  BY <1>1, <1>2

\* The same of what a database has.
LEMMA TableOfDatabase ==
  ASSUME NEW t \in DatabaseTables
  PROVE  t \in Tables /\ \A i \in DOMAIN t.rows : Len(t.rows[i]) = Len(t.columns)
<1>1. PICK r \in Results : \E n \in 0 .. Len(r.rows) :
        t = TableOfSQL(r.columns, SubSeq(r.rows, 1, n))
  BY DEF DatabaseTables
<1>2. PICK n \in 0 .. Len(r.rows) : t = TableOfSQL(r.columns, SubSeq(r.rows, 1, n))
  BY <1>1
<1> DEFINE C == Len(r.columns)
           read == SubSeq(r.rows, 1, n)
           rows == [i \in DOMAIN read |-> [j \in DOMAIN r.columns |-> read[i][j]]]
<1>3. /\ r.columns \in Seq(Columns) /\ DOMAIN r.columns = 1 .. C /\ C \in Nat
      /\ r.rows \in Seq(Seq(JSONCells))
      /\ \A i \in DOMAIN r.rows : Len(r.rows[i]) = C
  BY WorkerAssumption
<1>4. /\ n \in Nat /\ DOMAIN read = 1 .. n
      /\ \A i \in 1 .. n : i \in DOMAIN r.rows /\ read[i] = r.rows[i]
  BY <1>3
<1>5. ASSUME NEW i \in 1 .. n, NEW j \in 1 .. C
      PROVE  read[i][j] \in Cells
  <2>1. r.rows[i] \in Seq(JSONCells) /\ Len(r.rows[i]) = C
    BY <1>3, <1>4
  <2>2. r.rows[i][j] \in JSONCells
    BY <2>1
  <2> QED
    BY <1>4, <2>2 DEF Cells
<1> HIDE DEF read
<1>6. \A i \in 1 .. n : \A j \in 1 .. C : rows[i][j] \in Cells
  BY <1>3, <1>4, <1>5
<1>7. rows = [i \in 1 .. n |-> [j \in 1 .. C |-> rows[i][j]]]
  BY <1>3, <1>4
<1>8. t = Table(r.columns, rows)
  BY <1>2 DEF TableOfSQL, read
<1> HIDE DEF rows
<1> QED
  BY <1>3, <1>4, <1>6, <1>7, <1>8, TableOfRows

\* With columns, a table has all rows of the answer, and each cell its value.
LEMMA RowsAreTold ==
  ASSUME NEW a \in Answers, ~ TooLong(a), NEW t \in TablesOf(a), a.columns \notin {Nothing, <<>>}
  PROVE  /\ t.columns = a.columns
         /\ Len(t.rows) = Len(a.rows)
         /\ \A i \in DOMAIN a.rows : \A j \in DOMAIN a.rows[i] :
              t.rows[i][j].value = a.rows[i][j].value
<1>1. t.columns = a.columns /\ t.rows = CellsOf(a)
  BY DEF TablesOf, Table
<1>2. /\ a.columns \in Seq(Columns) /\ DOMAIN a.columns = 1 .. Len(a.columns)
      /\ a.rows \in Seq(Seq(Said)) /\ Len(a.rows) \in Nat /\ DOMAIN a.rows = 1 .. Len(a.rows)
  BY AnswerType
<1>3. ASSUME NEW i \in DOMAIN a.rows, NEW j \in DOMAIN a.rows[i]
      PROVE  CellsOf(a)[i][j].value = a.rows[i][j].value
  <2>1. a.rows[i] \in Seq(Said) /\ j \in 1 .. Len(a.rows[i]) /\ Len(a.rows[i]) \in Nat
    BY <1>2
  <2>2. Len(a.rows[i]) <= Len(a.columns)
    BY <1>2, <2>1 DEF TooLong
  <2>3. j \in DOMAIN a.columns
    BY <1>2, <2>1, <2>2
  <2>4. CellsOf(a)[i][j] = CellOf(a.rows[i][j])
    BY <2>3 DEF CellsOf
  <2> QED
    BY <2>4 DEF CellOf, Cell
<1>4. Len(CellsOf(a)) = Len(a.rows)
  BY <1>2 DEF CellsOf
<1> QED
  BY <1>1, <1>3, <1>4

\* Without, a table has the keys as its columns, and a row for every line, with what
\* the line has under the name of each.
LEMMA LinesAreTold ==
  ASSUME NEW a \in Answers, NEW t \in TablesOf(a), a.columns = Nothing
  PROVE  /\ a.lines \in Seq(Lines) /\ t \in TablesOfLines(a.lines)
         /\ IsInjective(t.columns) /\ ToSet(t.columns) = Keys(a.lines)
         /\ Len(t.rows) = Len(a.lines)
         /\ \A i \in DOMAIN a.lines : \A c \in ToSet(t.columns) :
              LET cell == t.rows[i][SelectInSeq(t.columns, LAMBDA d : c = d)]
              IN IF c \in DOMAIN a.lines[i] THEN cell = a.lines[i][c] ELSE cell.form = "nil"
<1>1. ToWire(a).lines = a.lines
  BY DEF ToWire
<1>2. Nothing \notin ToSet(a.lines) /\ t \in TablesOfLines(a.lines)
  BY <1>1 DEF TablesOf
<1>3. a.lines \in Seq(Lines)
  BY <1>1, <1>2, LinesAreRead
<1>4. /\ t \in Tables
      /\ IsInjective(t.columns) /\ ToSet(t.columns) = Keys(a.lines)
      /\ Len(t.rows) = Len(a.lines)
      /\ \A i \in DOMAIN a.lines : \A j \in DOMAIN t.columns :
           t.rows[i][j] = IF t.columns[j] \in DOMAIN a.lines[i] THEN a.lines[i][t.columns[j]]
                          ELSE Cell("nil", Empty)
  BY <1>2, <1>3, TableOfLines
<1>5. ASSUME NEW i \in DOMAIN a.lines, NEW c \in ToSet(t.columns)
      PROVE  LET cell == t.rows[i][SelectInSeq(t.columns, LAMBDA d : c = d)]
             IN IF c \in DOMAIN a.lines[i] THEN cell = a.lines[i][c] ELSE cell.form = "nil"
  <2> DEFINE I == {k \in 1 .. Len(t.columns) : c = t.columns[k]}
             place == SelectInSeq(t.columns, LAMBDA d : c = d)
  <2>1. place = IF I # {} THEN Min(I) ELSE 0
    BY DEF SelectInSeq
  <2>2. t.columns \in Seq(Columns) /\ DOMAIN t.columns = 1 .. Len(t.columns)
    BY <1>4 DEF Tables
  <2>3. I \subseteq Nat /\ I # {}
    BY <2>2 DEF ToSet
  <2>4. place \in I
    <3> HIDE DEF I, place
    <3> QED
      BY <2>1, <2>3, MinInSet
  <2>5. place \in DOMAIN t.columns /\ t.columns[place] = c
    BY <2>2, <2>4
  <2> HIDE DEF place, I
  <2>6. t.rows[i][place] = IF c \in DOMAIN a.lines[i] THEN a.lines[i][c] ELSE Cell("nil", Empty)
    BY <1>4, <2>5
  <2> QED
    BY <2>6 DEF place, Cell
<1> QED
  BY <1>2, <1>3, <1>4, <1>5

-----------------------------------------------------------------------------
(* The parameters of a request.                                             *)

\* What the loop over the blocks leaves of a block whose path no other key begins.
LEMMA MergedKeeps ==
  ASSUME NEW order \in Seq(DOMAIN nested), IsInjective(order),
         NEW k \in ToSet(order),
         \A m \in DOMAIN nested \ {k} : ~ IsPrefix(m, Append(k, Attribute))
  PROVE  [path |-> Append(k, Attribute), value |-> nested[k]] \in Merged(order)
<1> DEFINE N == Len(order)
           Leaf(m) == [path |-> Append(m, Attribute), value |-> nested[m]]
           leaves == {Leaf(m) : m \in DOMAIN nested}
           S == SUBSET leaves
           none == {}
           step == [n \in 1 .. N |-> [tree \in S |-> Merge(tree, order[n])]]
           Is(g) == g = [n \in 0 .. N |-> IF n = 0 THEN {} ELSE Merge(g[n - 1], order[n])]
           f == Folded(S, none, step, N)
<1>1. N \in Nat /\ none \in S /\ DOMAIN order = 1 .. N
  OBVIOUS
<1>2. step \in [1 .. N -> [S -> S]]
  <2>1. ASSUME NEW n \in 1 .. N, NEW tree \in S
        PROVE  Merge(tree, order[n]) \in S
    <3>1. order[n] \in DOMAIN nested
      OBVIOUS
    <3> QED
      BY <3>1 DEF Merge
  <2> QED
    BY <2>1
<1>3. \A n \in 1 .. N : \A tree \in S : step[n][tree] = Merge(tree, order[n])
  OBVIOUS
<1> HIDE DEF N, S, none, step
<1>4. f \in [0 .. N -> S] /\ f[0] = none /\ \A n \in 1 .. N : f[n] = step[n][f[n - 1]]
  BY <1>1, <1>2, Folding
<1> HIDE DEF f
<1>5. Is(f)
  <2>1. ASSUME NEW n \in 0 .. N
        PROVE  f[n] = IF n = 0 THEN {} ELSE Merge(f[n - 1], order[n])
    <3>1. CASE n = 0
      BY <1>4, <3>1 DEF none
    <3>2. CASE n # 0
      <4>1. n \in 1 .. N /\ n - 1 \in 0 .. N
        BY <1>1, <3>2
      <4> QED
        BY <1>3, <1>4, <3>2, <4>1
    <3> QED
      BY <3>1, <3>2
  <2> QED
    BY <1>4, <2>1
<1> DEFINE tree == CHOOSE g : Is(g)
<1>6. Is(tree)
  BY <1>5
<1>7. Merged(order) = tree[N]
  BY DEF Merged, N
<1> HIDE DEF tree
<1>8. ASSUME NEW n \in 1 .. N
      PROVE  tree[n] = Merge(tree[n - 1], order[n])
  <2>1. n \in 0 .. N /\ n # 0
    BY <1>1
  <2> QED
    BY <1>6, <2>1
<1>9. PICK place \in 1 .. N : order[place] = k
  BY <1>1 DEF ToSet
<1> DEFINE T == {n \in 0 .. N : n >= place => Leaf(k) \in tree[n]}
<1>10. 0 \in T
  BY <1>1, <1>9
<1>11. ASSUME NEW n \in 0 .. N - 1, n \in T
       PROVE  n + 1 \in T
  <2>1. n + 1 \in 1 .. N /\ (n + 1) - 1 = n
    BY <1>1
  <2>2. tree[n + 1] = Merge(tree[n], order[n + 1])
    BY <1>8, <2>1
  <2>3. CASE n + 1 = place
    <3>1. Leaf(k) \in tree[n + 1]
      BY <1>9, <2>2, <2>3 DEF Merge
    <3> QED
      BY <2>1, <3>1
  <2>4. CASE n >= place
    <3>1. Leaf(k) \in tree[n]
      BY <1>11, <2>4
    <3>2. n + 1 \in DOMAIN order /\ place \in DOMAIN order /\ n + 1 # place
      BY <1>1, <2>1, <2>4
    <3>3. order[n + 1] \in DOMAIN nested \ {k}
      BY <1>9, <3>2 DEF IsInjective
    <3>4. Leaf(k) \in tree[n + 1]
      BY <2>2, <3>1, <3>3 DEF Merge
    <3> QED
      BY <2>1, <3>4
  <2>5. CASE n + 1 < place
    BY <2>1, <2>5
  <2> QED
    BY <1>9, <2>1, <2>3, <2>4, <2>5
<1> HIDE DEF T
<1>12. 0 .. N \subseteq T
  BY <1>1, <1>10, <1>11, InductUpTo
<1>13. N \in 0 .. N /\ N >= place
  BY <1>1, <1>9
<1>14. Leaf(k) \in tree[N]
  BY <1>12, <1>13 DEF T
<1> QED
  BY <1>7, <1>14

\* All labels in a row have the parts of each.
LEMMA FlattenType ==
  ASSUME NEW S, NEW seqs \in Seq(Seq(S))
  PROVE  FlattenSeq(seqs) \in Seq(S)
<1> DEFINE N == Len(seqs)
           Q == Seq(S)
           none == <<>>
           step == [n \in 1 .. N |-> [s \in Q |-> s \o seqs[n]]]
           f == Folded(Q, none, step, N)
           Is(g) == g = [n \in 1 .. N |-> IF n = 1 THEN seqs[n] ELSE g[n - 1] \o seqs[n]]
<1>1. N \in Nat /\ none \in Q
  OBVIOUS
<1>2. step \in [1 .. N -> [Q -> Q]]
  OBVIOUS
<1>3. \A n \in 1 .. N : \A s \in Q : step[n][s] = s \o seqs[n]
  OBVIOUS
<1>4. /\ \A n \in 1 .. N : seqs[n] \in Q
      /\ \A s \in Q : none \o s = s
      /\ \A s, u \in Q : s \o u \in Q
  OBVIOUS
<1>5. N = 0 => FlattenSeq(seqs) \in Q
  BY DEF FlattenSeq
<1>6. N # 0 => FlattenSeq(seqs) = (CHOOSE g : Is(g))[N]
  BY DEF FlattenSeq
<1> HIDE DEF N, Q, none, step
<1>7. f \in [0 .. N -> Q] /\ f[0] = none /\ \A n \in 1 .. N : f[n] = step[n][f[n - 1]]
  <2>1. f \in [0 .. N -> Q]
    BY <1>1, <1>2, Folding
  <2>2. f[0] = none
    BY <1>1, <1>2, Folding
  <2>3. \A n \in 1 .. N : f[n] = step[n][f[n - 1]]
    BY <1>1, <1>2, Folding
  <2> QED
    BY <2>1, <2>2, <2>3
<1> HIDE DEF f
<1>8. \E g : Is(g)
  <2> DEFINE g == [n \in 1 .. N |-> f[n]]
  <2>1. ASSUME NEW n \in 1 .. N
        PROVE  f[n] = IF n = 1 THEN seqs[n] ELSE f[n - 1] \o seqs[n]
    <3>1. n - 1 \in 0 .. N /\ (n # 1 => n - 1 \in 1 .. N)
      BY <1>1
    <3>2. f[n] = f[n - 1] \o seqs[n]
      BY <1>7, <1>3, <3>1
    <3>3. n = 1 => f[n - 1] = none
      BY <1>7
    <3>4. n = 1 => f[n] = seqs[n]
      BY <1>4, <3>2, <3>3
    <3> QED
      BY <3>2, <3>4
  <2>2. \A n \in 1 .. N : n # 1 => n - 1 \in 1 .. N
    BY <1>1
  <2>3. Is(g)
    BY <2>1, <2>2
  <2> QED
    BY <2>3
<1> DEFINE flatten == CHOOSE g : Is(g)
<1>9. Is(flatten)
  BY <1>8
<1>10. N # 0 => FlattenSeq(seqs) = flatten[N]
  BY <1>6
<1> HIDE DEF flatten
<1> DEFINE T == {n \in 0 .. N : n > 0 => flatten[n] \in Q}
<1>11. 0 \in T
  BY <1>1
<1>12. ASSUME NEW n \in 0 .. N - 1, n \in T
       PROVE  n + 1 \in T
  <2>1. n + 1 \in 1 .. N /\ (n + 1) - 1 = n /\ (n + 1 # 1 => n > 0)
    BY <1>1
  <2>2. flatten[n + 1] = IF n + 1 = 1 THEN seqs[n + 1] ELSE flatten[n] \o seqs[n + 1]
    BY <1>9, <2>1
  <2>3. flatten[n + 1] \in Q
    BY <1>4, <1>12, <2>1, <2>2
  <2> QED
    BY <2>1, <2>3
<1> HIDE DEF T
<1>13. 0 .. N \subseteq T
  BY <1>1, <1>11, <1>12, InductUpTo
<1>14. N # 0 => flatten[N] \in Q
  BY <1>1, <1>13 DEF T
<1> QED
  BY <1>5, <1>10, <1>14 DEF Q

\* What begins with a key and ends with the attribute begins the key itself.
LEMMA PrefixOfPath ==
  ASSUME NEW S, NEW k \in Seq(S), NEW m \in Seq(S), NEW e, e \notin S,
         IsPrefix(m, Append(k, e))
  PROVE  IsPrefix(m, k)
<1>1. Len(m) \in Nat /\ Len(k) \in Nat /\ Len(m) <= Len(k) + 1
  BY DEF IsPrefix
<1>2. SubSeq(m, 1, Len(m)) = SubSeq(Append(k, e), 1, Len(m))
  BY DEF IsPrefix
<1>3. /\ Append(k, e) \in Seq(S \cup {e}) /\ Len(Append(k, e)) = Len(k) + 1
      /\ \A i \in 1 .. Len(k) : Append(k, e)[i] = k[i]
      /\ Append(k, e)[Len(k) + 1] = e
  OBVIOUS
<1>4. \A i \in 1 .. Len(m) : m[i] = Append(k, e)[i]
  <2>1. \A i \in 1 .. Len(m) : SubSeq(m, 1, Len(m))[i] = m[i]
    OBVIOUS
  <2>2. \A i \in 1 .. Len(m) : SubSeq(Append(k, e), 1, Len(m))[i] = Append(k, e)[i]
    BY <1>1, <1>3
  <2> QED
    BY <1>2, <2>1, <2>2
<1>5. Len(m) <= Len(k)
  <2> SUFFICES ASSUME Len(m) = Len(k) + 1 PROVE FALSE
    BY <1>1
  <2>1. m[Len(m)] = e /\ m[Len(m)] \in S
    BY <1>1, <1>3, <1>4
  <2> QED
    BY <2>1
<1>6. \A i \in 1 .. Len(m) : m[i] = k[i]
  BY <1>1, <1>3, <1>4, <1>5
<1>7. SubSeq(m, 1, Len(m)) = SubSeq(k, 1, Len(m))
  BY <1>1, <1>5, <1>6
<1> QED
  BY <1>5, <1>7 DEF IsPrefix

\* The keys of a query's blocks are finitely many, and made of types and labels.
LEMMA KeysOfBody ==
  ASSUME NEW b \in Bodies
  PROVE  /\ DOMAIN DecodeBody(b) = {Key(b[i]) : i \in DOMAIN b}
         /\ IsFiniteSet(DOMAIN DecodeBody(b))
         /\ DOMAIN DecodeBody(b) \subseteq Seq(Types \cup Parts)
<1> DEFINE n == Len(b)
           keys == {Key(b[i]) : i \in DOMAIN b}
           f == [i \in 1 .. n |-> Key(b[i])]
<1>1. b \in Seq(Blocks) /\ n \in Nat /\ DOMAIN b = 1 .. n
  BY WorkerAssumption
<1>2. DOMAIN DecodeBody(b) = keys
  BY DEF DecodeBody, ToSet
<1>3. f \in Surjection(1 .. n, keys)
  BY <1>1 DEF Surjection
<1>4. IsFiniteSet(keys)
  <2> HIDE DEF keys, f
  <2>1. IsFiniteSet(1 .. n)
    BY <1>1, FS_Interval
  <2> QED
    BY <1>3, <2>1, FS_Surjection
<1>5. ASSUME NEW i \in DOMAIN b
      PROVE  Key(b[i]) \in Seq(Types \cup Parts)
  <2>1. b[i] \in Blocks
    BY <1>1
  <2>2. b[i].type \in Types /\ b[i].labels \in Seq(Seq(Parts))
    BY <2>1 DEF Blocks
  <2>3. FlattenSeq(b[i].labels) \in Seq(Parts)
    BY <2>2, FlattenType
  <2> DEFINE labels == FlattenSeq(b[i].labels)
             front == <<b[i].type>>
  <2>4. labels \in Seq(Types \cup Parts) /\ front \in Seq(Types \cup Parts)
    BY <2>2, <2>3
  <2>5. Key(b[i]) = front \o labels
    BY DEF Key
  <2> HIDE DEF labels, front
  <2> QED
    BY <2>4, <2>5
<1> QED
  BY <1>2, <1>4, <1>5

\* A block that shares its key with no other keeps its value.
LEMMA ValueOfBlock ==
  ASSUME NEW b \in Bodies, NEW i \in DOMAIN b, \A j \in DOMAIN b \ {i} : Key(b[j]) # Key(b[i])
  PROVE  DecodeBody(b)[Key(b[i])] = b[i].value
<1> DEFINE k == Key(b[i])
           last == SelectLastInSeq(b, LAMBDA c : Key(c) = k)
<1>1. DOMAIN b = 1 .. Len(b)
  BY WorkerAssumption
<1>2. {j \in 1 .. Len(b) : Key(b[j]) = k} = {i}
  BY <1>1
<1>3. Max({i}) = i
  <2>1. i \in Int
    BY <1>1
  <2> QED
    BY <2>1 DEF Max
<1>4. last = i
  BY <1>2, <1>3 DEF SelectLastInSeq
<1>5. k \in {Key(c) : c \in ToSet(b)}
  BY DEF ToSet
<1> QED
  BY <1>4, <1>5 DEF DecodeBody

\* Every request has each block whose key, and no other's, begins its path.
LEMMA BlocksAreMerged ==
  ASSUME body \in Bodies, nested = DecodeBody(body), NEW tree \in Trees,
         NEW i \in DOMAIN body,
         \A j \in DOMAIN body \ {i} : ~ IsPrefix(Key(body[j]), Key(body[i]))
  PROVE  \E l \in tree : l.path = Append(Key(body[i]), Attribute) /\ l.value = body[i].value
<1> DEFINE k == Key(body[i])
           K == DOMAIN nested
<1>1. /\ K = {Key(body[j]) : j \in DOMAIN body} /\ IsFiniteSet(K)
      /\ K \subseteq Seq(Types \cup Parts)
  BY KeysOfBody
<1>2. PICK order \in SetToSeqs(K) : tree = Merged(order)
  BY DEF Trees
<1>3. order \in Seq(K) /\ IsInjective(order) /\ ToSet(order) = K
  BY <1>1, SequencesOfSet
<1>4. k \in K /\ k \in Seq(Types \cup Parts)
  BY <1>1
<1>5. \A m \in Seq(Types \cup Parts) : IsPrefix(m, m)
  BY DEF IsPrefix
<1>6. \A j \in DOMAIN body \ {i} : Key(body[j]) # k
  BY <1>4, <1>5
<1>7. nested[k] = body[i].value
  BY <1>6, ValueOfBlock
<1>8. ASSUME NEW m \in K \ {k}
      PROVE  ~ IsPrefix(m, Append(k, Attribute))
  <2>1. PICK j \in DOMAIN body : m = Key(body[j])
    BY <1>1
  <2>2. j # i
    BY <1>8, <2>1
  <2>3. m \in Seq(Types \cup Parts)
    BY <1>1
  <2>4. ~ IsPrefix(m, k)
    BY <2>1, <2>2
  <2>5. Attribute \notin Types \cup Parts
    BY WorkerAssumption
  <2> HIDE DEF k
  <2> QED
    BY <1>4, <2>3, <2>4, <2>5, PrefixOfPath
<1> HIDE DEF k, K
<1>9. [path |-> Append(k, Attribute), value |-> nested[k]] \in tree
  BY <1>2, <1>3, <1>4, <1>8, MergedKeeps DEF K
<1> QED
  BY <1>7, <1>9 DEF k

-----------------------------------------------------------------------------
(* The invariant of the worker.                                             *)

\* The policy is the one of the file until the first wait, and in order from then on.
PolicyInv ==
  /\ policy = IF once THEN PutInOrder(written) ELSE written
  /\ once => written \in Policies /\ written.interval >= 0

\* How far the message of each handler has come, and what it rests on.
StageInv ==
  \A h \in Handlers :
    /\ pc[h] # "queued" => loading = "ready" /\ receives[h] > 0
    /\ pc[h] = "once" => written \in Policies /\ written.interval >= 0
    /\ pc[h] = "wait" => once
    /\ pc[h] \in {"called", "returned"} => source = "plugin"

\* Once the configuration is loaded, the blocks are decoded; and a request that is
\* under way was made from them.
RequestInv ==
  /\ loading = "ready" /\ source = "plugin" => nested = DecodeBody(body)
  /\ DOMAIN request = Handlers
  /\ \A h \in Handlers : request[h] # Nothing => pc[h] = "called" /\ request[h] \in Trees

\* What the answer of a call is, until it is read.
AnswerInv ==
  /\ DOMAIN given = Handlers /\ DOMAIN wire = Handlers
  /\ \A h \in Handlers : pc[h] = "returned" =>
       given[h] \in Answers /\ ~ TooLong(given[h]) /\ wire[h] = ToWire(given[h])

\* A result is a table of what was given; one that was settled has no broken cell.
ResultInv ==
  \A h \in Handlers :
    /\ result[h] # Nothing =>
         /\ pc[h] \in {"failed", "once", "wait", "acked"}
         /\ source = "plugin" =>
              given[h] \in Answers /\ ~ TooLong(given[h]) /\ result[h] \in TablesOf(given[h])
         /\ source = "sql" => result[h] \in DatabaseTables
    /\ pc[h] = "acked" => result[h] # Nothing /\ Settles(result[h])

WorkerInv ==
  TypeOK /\ PolicyInv /\ StageInv /\ RequestInv /\ AnswerInv /\ ResultInv /\ WaitsInBounds

\* Putting a policy into order leaves it a policy.
LEMMA OrderedPolicy ==
  ASSUME NEW p \in Policies
  PROVE  PutInOrder(p) \in RetryPolicies /\ PutInOrder(p).interval = Least(p.interval, p.max)
<1> DEFINE factor == IF p.factor = 0 THEN 2 ELSE p.factor
           q == [p EXCEPT !.factor = factor]
           least == Least(p.interval, p.max)
<1>1. p \in RetryPolicies /\ factor \in Int /\ least \in Int
  BY PoliciesAssumption DEF RetryPolicies, Least
<1>2. q \in RetryPolicies /\ q.interval = p.interval
  BY <1>1 DEF RetryPolicies
<1>3. PutInOrder(p) = [q EXCEPT !.interval = least]
  BY <1>1 DEF PutInOrder, RetryPolicies
<1> HIDE DEF q, least
<1>4. PutInOrder(p) \in RetryPolicies /\ PutInOrder(p).interval = least
  BY <1>1, <1>2, <1>3 DEF RetryPolicies
<1> QED
  BY <1>4 DEF least

\* Of a policy in order the interval is negative only if its maximum is.
LEMMA NegativeInOrder ==
  ASSUME NEW p \in Policies, p.interval >= 0, PutInOrder(p).interval < 0
  PROVE  p.max < 0
<1>1. p \in RetryPolicies
  BY PoliciesAssumption
<1>2. PutInOrder(p).interval = Least(p.interval, p.max)
  BY OrderedPolicy
<1> QED
  BY <1>1, <1>2 DEF RetryPolicies, Least

\* The table that is made of what came over the wire is one of the answer's.
LEMMA TableFromWire ==
  ASSUME NEW a \in Answers, ToWire(a).columns # <<>>
  PROVE  Table(ToWire(a).columns,
               [i \in DOMAIN ToWire(a).rows |->
                 [j \in DOMAIN ToWire(a).rows[i] |-> CellOf(ToWire(a).rows[i][j])]])
           \in TablesOf(a)
<1> DEFINE res == ToWire(a)
           cells == [i \in DOMAIN res.rows |-> [j \in DOMAIN res.rows[i] |-> CellOf(res.rows[i][j])]]
           Text(i, j) == IF j \in DOMAIN a.rows[i] THEN a.rows[i][j] ELSE Cell("text", Empty)
<1>1. a.columns \notin {Nothing, <<>>}
  BY DEF ToWire
<1>2. /\ res.columns = a.columns
      /\ res.rows = [i \in DOMAIN a.rows |-> [j \in DOMAIN a.columns |-> Text(i, j)]]
  BY <1>1 DEF ToWire
<1> HIDE DEF res
<1>3. cells = CellsOf(a)
  BY <1>2 DEF CellsOf
<1>4. Table(res.columns, cells) \in TablesOf(a)
  BY <1>1, <1>2, <1>3 DEF TablesOf
<1> QED
  BY <1>4 DEF res

\* The invariant holds at the start.
LEMMA WorkerInit == Init => WorkerInv
<1> SUFFICES ASSUME Init PROVE WorkerInv
  OBVIOUS
<1>1. Policies \subseteq RetryPolicies
  BY PoliciesAssumption
<1>2. MaxReceive \in Nat
  BY WorkerAssumption
<1>3. TypeOK
  <2>1. RetryTypeOK
    BY <1>1 DEF Init, RetryInit, RetryTypeOK
  <2>2. alive \in BOOLEAN /\ loading \in {"provider", "query", "ready", "refused"}
    BY DEF Init
  <2> QED
    BY <1>2, <2>1, <2>2 DEF Init, TypeOK, Stages
<1>4. PolicyInv
  BY DEF Init, RetryInit, PolicyInv
<1>5. StageInv /\ AnswerInv /\ ResultInv
  BY DEF Init, StageInv, AnswerInv, ResultInv
<1>6. RequestInv
  BY DEF Init, RequestInv
<1>7. WaitsInBounds
  BY DEF Init, WaitsInBounds
<1> QED
  BY <1>3, <1>4, <1>5, <1>6, <1>7 DEF WorkerInv

\* The same trees come of the same blocks.
LEMMA TreesUnchanged ==
  ASSUME UNCHANGED nested
  PROVE  Trees' = Trees
  BY DEF Trees, Merged, Merge

\* Every step keeps the invariant.
LEMMA WorkerNext == WorkerInv /\ [Next]_vars => WorkerInv'
<1> SUFFICES ASSUME WorkerInv, [Next]_vars PROVE WorkerInv'
  OBVIOUS
<1> USE DEF WorkerInv, TypeOK, RetryTypeOK, PolicyInv, StageInv, RequestInv, AnswerInv, ResultInv,
            WaitsInBounds, Stages, vars, retryVars, loadVars, callVars, Goes
<1>1. CASE NewProvider
  BY <1>1 DEF NewProvider
<1>2. CASE NewQuery
  BY <1>2 DEF NewQuery
<1>3. ASSUME NEW h \in Handlers, Receive(h)
      PROVE  WorkerInv'
  BY <1>3, TreesUnchanged, WorkerAssumption DEF Receive
<1>4. ASSUME NEW h \in Handlers, EvaluationFails(h)
      PROVE  WorkerInv'
  BY <1>4, TreesUnchanged DEF EvaluationFails
<1>5. ASSUME NEW h \in Handlers, Call(h)
      PROVE  WorkerInv'
  BY <1>5, TreesUnchanged DEF Call
<1>6. ASSUME NEW h \in Handlers, CallFails(h)
      PROVE  WorkerInv'
  BY <1>6, TreesUnchanged DEF CallFails
<1>7. ASSUME NEW h \in Handlers, Serve(h)
      PROVE  WorkerInv'
  BY <1>7, TreesUnchanged DEF Serve
<1>8. ASSUME NEW h \in Handlers, Return(h)
      PROVE  WorkerInv'
  <2> DEFINE a == given[h]
             res == ToWire(a)
  <2>1. a \in Answers /\ ~ TooLong(a) /\ wire[h] = res /\ source = "plugin"
    BY <1>8 DEF Return
  <2>2. \/ Goes(h, "failed") /\ UNCHANGED result
        \/ \E table \in TablesOf(a) : Succeeds(h, table)
    <3>1. CASE "bad" \in ToSet(res.params) \/ (res.columns = <<>> /\ Nothing \in ToSet(res.lines))
      BY <1>8, <2>1, <3>1 DEF Return
    <3>2. CASE ~ ("bad" \in ToSet(res.params)) /\ res.columns # <<>>
      BY <1>8, <2>1, <3>2, TableFromWire DEF Return
    <3>3. CASE /\ ~ ("bad" \in ToSet(res.params)) /\ res.columns = <<>>
               /\ Nothing \notin ToSet(res.lines)
      <4>1. \E table \in TablesOfLines(res.lines) : Succeeds(h, table)
        BY <1>8, <2>1, <3>3 DEF Return
      <4>2. a.columns \in {Nothing, <<>>}
        BY <3>3 DEF ToWire
      <4>3. TablesOf(a) = TablesOfLines(res.lines)
        BY <3>3, <4>2 DEF TablesOf
      <4> QED
        BY <4>1, <4>3
    <3> QED
      BY <3>1, <3>2, <3>3
  <2>3. CASE Goes(h, "failed") /\ UNCHANGED result
    BY <1>8, <2>3, TreesUnchanged DEF Return
  <2>4. ASSUME NEW table \in TablesOf(a), Succeeds(h, table)
        PROVE  WorkerInv'
    <3>1. table \in Tables /\ table # Nothing
      BY <2>1, TableOfAnswer, WorkerAssumption
    <3> QED
      BY <1>8, <2>1, <2>4, <3>1, TreesUnchanged DEF Return, Succeeds
  <2> QED
    BY <2>2, <2>3, <2>4
<1>9. ASSUME NEW h \in Handlers, QueryDatabase(h)
      PROVE  WorkerInv'
  <2>1. \/ Goes(h, "failed") /\ UNCHANGED <<given, result>>
        \/ \E table \in DatabaseTables, r \in Results :
             given' = [given EXCEPT ![h] = r] /\ Succeeds(h, table)
    BY <1>9 DEF QueryDatabase, DatabaseTables
  <2>2. CASE Goes(h, "failed") /\ UNCHANGED <<given, result>>
    BY <1>9, <2>2, TreesUnchanged DEF QueryDatabase
  <2>3. ASSUME NEW table \in DatabaseTables, NEW r \in Results,
               given' = [given EXCEPT ![h] = r], Succeeds(h, table)
        PROVE  WorkerInv'
    <3>1. table \in Tables /\ table # Nothing
      BY TableOfDatabase, WorkerAssumption
    <3> QED
      BY <1>9, <2>3, <3>1, TreesUnchanged DEF QueryDatabase, Succeeds
  <2> QED
    BY <2>1, <2>2, <2>3
<1>10. ASSUME NEW h \in Handlers, FailWithoutWait(h)
      PROVE  WorkerInv'
  <2>1. policy = NoPolicy \/ ~ (policy.interval >= 0)
    BY <1>10 DEF FailWithoutWait, NoRetryAfter, HasPolicy
  <2>2. written = NoPolicy \/ written.interval < 0 \/ (once /\ written.max < 0)
    <3>1. CASE once
      <4>1. written \in Policies /\ written.interval >= 0 /\ policy = PutInOrder(written)
        BY <3>1
      <4>2. policy \in RetryPolicies /\ policy # NoPolicy
        BY <4>1, OrderedPolicy, PoliciesAssumption
      <4>3. policy.interval < 0
        BY <2>1, <4>2 DEF RetryPolicies
      <4> QED
        BY <3>1, <4>1, <4>3, NegativeInOrder
    <3>2. CASE ~ once
      BY <2>1, <3>2, PoliciesAssumption DEF RetryPolicies
    <3> QED
      BY <3>1, <3>2
  <2> QED
    BY <1>10, <2>2, TreesUnchanged DEF FailWithoutWait, NoRetryAfter, Answer
<1>11. ASSUME NEW h \in Handlers, FailWithPolicy(h)
      PROVE  WorkerInv'
  <2>1. written \in Policies /\ written.interval >= 0
    BY <1>11, PoliciesAssumption DEF FailWithPolicy, HasPolicy
  <2> QED
    BY <1>11, <2>1, TreesUnchanged DEF FailWithPolicy
<1>12. ASSUME NEW h \in Handlers, FailOnce(h)
      PROVE  WorkerInv'
  <2>1. written \in Policies /\ written.interval >= 0
    BY <1>12 DEF FailOnce
  <2>2. policy' = PutInOrder(written) /\ policy' \in RetryPolicies
    BY <1>12, <2>1, OrderedPolicy DEF FailOnce, Once
  <2> QED
    BY <1>12, <2>1, <2>2, TreesUnchanged DEF FailOnce, Once
<1>13. ASSUME NEW h \in Handlers, FailAndWait(h)
      PROVE  WorkerInv'
  <2>1. written \in Policies /\ written.interval >= 0 /\ policy = PutInOrder(written)
    BY <1>13 DEF FailAndWait
  <2>2. PICK f \in 0 .. Fractions - 1 :
          waits' = [waits EXCEPT ![h] = RetryAfter(policy, receives[h], f)]
    BY <1>13 DEF FailAndWait, Wait
  <2>3. receives[h] \in Nat \ {0}
    BY <1>13 DEF FailAndWait
  <2> DEFINE w == RetryAfter(policy, receives[h], f)
  <2>4. w \in Int /\ InBounds(written, receives[h], w)
    BY <2>1, <2>3, WaitOfOrderedPolicy
  <2>5. w # NoHeader /\ written # NoPolicy /\ ~ (written.interval < 0)
    BY <2>1, <2>4, PoliciesAssumption DEF RetryPolicies
  <2> HIDE DEF w
  <2>6. waits' = [waits EXCEPT ![h] = w]
    BY <2>2 DEF w
  <2> QED
    BY <1>13, <2>1, <2>4, <2>5, <2>6, TreesUnchanged DEF FailAndWait, Wait, Answer
<1>14. CASE Die
  BY <1>14, TreesUnchanged DEF Die
<1>15. CASE UNCHANGED vars
  BY <1>15, TreesUnchanged
<1>16. Rest => UNCHANGED vars
  BY DEF Rest
<1>17. CASE Next
  <2>1. \/ NewProvider \/ NewQuery \/ Die \/ Rest
        \/ \E h \in Handlers : HandlerStep(h)
    BY <1>17 DEF Next
  <2>2. ASSUME NEW h \in Handlers, HandlerStep(h)
        PROVE  WorkerInv'
    BY <2>2, <1>3, <1>4, <1>5, <1>6, <1>7, <1>8, <1>9, <1>10, <1>11, <1>12, <1>13, Zenon DEF HandlerStep
  <2> QED
    BY <2>1, <2>2, <1>1, <1>2, <1>14, <1>15, <1>16
<1> QED
  BY <1>15, <1>17

\* The invariant holds always.
THEOREM WorkerInvariant == Spec => []WorkerInv
<1> QED
  BY WorkerInit, WorkerNext, PTL DEF Spec

-----------------------------------------------------------------------------
(* What it implies.                                                         *)

\* Every variable has a value of its type: the results are tables with JSON in their
\* cells, or with what a broken text became.
THEOREM Typing == Spec => []TypeOK
<1>1. WorkerInv => TypeOK
  BY DEF WorkerInv
<1> QED
  BY <1>1, WorkerInvariant, PTL

\* A failed message waits as long as the policy of the file says, whichever handler
\* put the policy into order, whatever the numbers in it are.
THEOREM WaitsKeepToPolicy == Spec => []WaitsInBounds
<1>1. WorkerInv => WaitsInBounds
  BY DEF WorkerInv
<1> QED
  BY <1>1, WorkerInvariant, PTL

\* Whatever order the map of the blocks is gone through in, a block reaches the
\* plugin if no other one's key is the beginning of its own.
THEOREM BlocksArrive == Spec => []ParametersArrive
<1>1. WorkerInv => ParametersArrive
  <2> SUFFICES ASSUME WorkerInv, NEW h \in Handlers, request[h] # Nothing,
                      NEW i \in DOMAIN body,
                      \A j \in DOMAIN body \ {i} : ~ IsPrefix(Key(body[j]), Key(body[i]))
               PROVE  \E l \in request[h] : l.path = Append(Key(body[i]), Attribute)
                                             /\ l.value = body[i].value
    BY DEF ParametersArrive
  <2>1. pc[h] = "called" /\ request[h] \in Trees
    BY DEF WorkerInv, RequestInv
  <2>2. nested = DecodeBody(body) /\ body \in Bodies
    BY <2>1 DEF WorkerInv, RequestInv, StageInv, TypeOK
  <2> QED
    BY <2>1, <2>2, BlocksAreMerged
<1> QED
  BY <1>1, WorkerInvariant, PTL

\* A result says what the plugin returned: nothing is lost on the wire, in the sort
\* of the columns or in the rows that are filled up.
THEOREM ResultsAreTheirs == Spec => []ResultIsTheirs
<1>1. WorkerInv => ResultIsTheirs
  <2> SUFFICES ASSUME WorkerInv, NEW h \in Handlers, pc[h] = "acked", source = "plugin"
               PROVE  LET t == result[h]
                          a == given[h]
                          At(i, c) == t.rows[i][SelectInSeq(t.columns, LAMBDA d : c = d)]
                      IN IF a.columns \notin {Nothing, <<>>}
                           THEN /\ t.columns = a.columns
                                /\ Len(t.rows) = Len(a.rows)
                                /\ \A i \in DOMAIN a.rows : \A j \in DOMAIN a.rows[i] :
                                     t.rows[i][j].value = a.rows[i][j].value
                           ELSE a.columns = Nothing =>
                                /\ IsInjective(t.columns) /\ ToSet(t.columns) = Keys(a.lines)
                                /\ Len(t.rows) = Len(a.lines)
                                /\ \A i \in DOMAIN a.lines : \A c \in ToSet(t.columns) :
                                     IF c \in DOMAIN a.lines[i] THEN At(i, c) = a.lines[i][c]
                                     ELSE At(i, c).form = "nil"
    BY DEF ResultIsTheirs
  <2>1. given[h] \in Answers /\ ~ TooLong(given[h]) /\ result[h] \in TablesOf(given[h])
    BY DEF WorkerInv, ResultInv
  <2> DEFINE t == result[h]
             a == given[h]
  <2>2. CASE a.columns \notin {Nothing, <<>>}
    BY <2>1, <2>2, RowsAreTold
  <2>3. CASE a.columns = Nothing
    BY <2>1, <2>3, LinesAreTold
  <2> QED
    BY <2>2, <2>3
<1> QED
  BY <1>1, WorkerInvariant, PTL

\* The columns of lines come in one order, whatever the order of Go's maps, as long
\* as no name of time stands behind another in the alphabet.
THEOREM ColumnsComeInOrder == Spec => []ColumnsInOrder
<1>1. WorkerInv => ColumnsInOrder
  <2> SUFFICES ASSUME WorkerInv, NEW h \in Handlers,
                      pc[h] = "acked", source = "plugin", given[h].columns = Nothing
               PROVE  LET c == result[h].columns
                          From(i) == FirstLine(given[h].lines, c[i])
                      IN (\A i, j \in DOMAIN c :
                            c[i] \in Timed /\ c[j] \notin Timed => Place(c[j]) < Place(c[i])) =>
                           \A i, j \in DOMAIN c : i < j =>
                             \/ c[i] \in Timed /\ c[j] \notin Timed
                             \/ /\ c[j] \in Timed => c[i] \in Timed
                                /\ \/ From(i) < From(j)
                                   \/ From(i) = From(j) /\ Place(c[i]) > Place(c[j])
    BY DEF ColumnsInOrder
  <2>1. given[h] \in Answers /\ result[h] \in TablesOf(given[h])
    BY DEF WorkerInv, ResultInv
  <2> DEFINE c == result[h].columns
             lines == given[h].lines
  <2>2. lines \in Seq(Lines) /\ result[h] \in TablesOfLines(lines)
    BY <2>1, LinesAreTold
  <2> SUFFICES ASSUME \A i, j \in DOMAIN c :
                        c[i] \in Timed /\ c[j] \notin Timed => Place(c[j]) < Place(c[i])
               PROVE  \A i, j \in DOMAIN c : i < j => Precedes(lines, c[i], c[j])
    BY DEF Precedes
  <2>3. \A d, e \in ToSet(c) : d \in Timed /\ e \notin Timed => Place(e) < Place(d)
    BY DEF ToSet
  <2> QED
    BY <2>2, <2>3, TableOfLinesInOrder
<1> QED
  BY <1>1, WorkerInvariant, PTL

\* The three texts of a settled result say the same of every row.
THEOREM TextsSayTheSame == Spec => []TextsAgree
<1>1. WorkerInv => TextsAgree
  <2> SUFFICES ASSUME WorkerInv, NEW h \in Handlers,
                      pc[h] = "acked", IsInjective(result[h].columns)
               PROVE  LET t == result[h]
                          text == ToTable(t)
                          lines == ToJSONLines(t)
                          vertical == ToVertical(t)
                      IN /\ \A i \in DOMAIN text : Len(text[i]) = Len(t.columns)
                         /\ Len(lines) = Len(text) /\ Len(vertical) = Len(text)
                         /\ \A i \in DOMAIN text : \A j \in DOMAIN t.columns :
                              /\ lines[i][t.columns[j]].value = text[i][j]
                              /\ vertical[i][j] \in
                                   {<<t.columns[j], text[i][j]>>, <<t.columns[j], t.columns[j]>>}
    BY DEF TextsAgree
  <2>1. result[h] # Nothing /\ Settles(result[h])
    BY DEF WorkerInv, ResultInv
  <2>2. result[h] \in Tables /\ \A i \in DOMAIN result[h].rows :
          Len(result[h].rows[i]) = Len(result[h].columns)
    BY <2>1, TableOfAnswer, TableOfDatabase DEF WorkerInv, ResultInv, TypeOK
  <2>3. \A i \in DOMAIN result[h].rows : ~ IsBroken(result[h].rows[i])
    BY <2>1 DEF Settles
  <2> QED
    BY <2>2, <2>3, TextsOfTable
<1> QED
  BY <1>1, WorkerInvariant, PTL

=============================================================================
