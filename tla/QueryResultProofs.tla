-------------------------- MODULE QueryResultProofs --------------------------
(***************************************************************************)
(* Lemmas about the operators of QueryResult: what the tables hold, in which   *)
(* order their columns come, and what the texts say of them.                 *)
(***************************************************************************)
EXTENDS QueryResult, Induction, FiniteSetTheorems

-----------------------------------------------------------------------------
(* The texts.                                                               *)

\* A table whose cells are all JSON has a line for every row.
LEMMA LineForEveryRow ==
  ASSUME NEW columns, NEW rows, Len(rows) \in Nat,
         \A i \in 1 .. Len(rows) : ~ IsBroken(rows[i])
  PROVE  /\ Len(ToJSONLines(Table(columns, rows))) = Len(rows)
         /\ \A i \in 1 .. Len(rows) :
              ToJSONLines(Table(columns, rows))[i] = LineOf(columns, rows[i])
<1> DEFINE N == Len(rows)
           line(i) == LineOf(columns, rows[i])
           upTo(n) == [i \in 1 .. n |-> line(i)]
           Is(g) == g = [n \in 0 .. N |->
                          IF n = 0 THEN <<>>
                          ELSE IF IsBroken(rows[n]) THEN g[n - 1]
                          ELSE Append(g[n - 1], line(n))]
<1>1. ASSUME NEW n \in 1 .. N
      PROVE  Append(upTo(n - 1), line(n)) = upTo(n)
  <2> HIDE DEF line
  <2> DEFINE S == {line(i) : i \in 1 .. N}
  <2>1. upTo(n - 1) \in Seq(S) /\ upTo(n) \in Seq(S) /\ line(n) \in S
    OBVIOUS
  <2>2. Len(upTo(n - 1)) = n - 1 /\ Len(upTo(n)) = n
    OBVIOUS
  <2> QED
    BY <2>1, <2>2
<1>2. upTo(0) = <<>>
  OBVIOUS
<1> HIDE DEF upTo
<1>3. \E g : Is(g)
  <2> DEFINE g == [n \in 0 .. N |-> upTo(n)]
  <2>1. ASSUME NEW n \in 1 .. N
        PROVE  g[n] = Append(g[n - 1], line(n))
    <3>1. n - 1 \in 0 .. N /\ n \in 0 .. N
      OBVIOUS
    <3> QED
      BY <1>1, <3>1
  <2>2. g[0] = <<>>
    BY <1>2
  <2>3. Is(g)
    <3> HIDE DEF line
    <3>1. ASSUME NEW n \in 0 .. N
          PROVE  g[n] = IF n = 0 THEN <<>>
                        ELSE IF IsBroken(rows[n]) THEN g[n - 1]
                        ELSE Append(g[n - 1], line(n))
      <4>1. n = 0 \/ n \in 1 .. N
        OBVIOUS
      <4> HIDE DEF g
      <4> QED
        BY <2>1, <2>2, <4>1
    <3> QED
      BY <3>1
  <2> QED
    BY <2>3
<1> DEFINE lines == CHOOSE g : Is(g)
<1>4. Is(lines)
  BY <1>3
<1>5. ToJSONLines(Table(columns, rows)) = lines[N]
  BY DEF ToJSONLines, Table
<1> HIDE DEF lines
<1> DEFINE T == {n \in 0 .. N : lines[n] = upTo(n)}
<1>6. 0 \in T
  BY <1>2, <1>4
<1>7. ASSUME NEW n \in 0 .. N - 1, n \in T
      PROVE  n + 1 \in T
  <2>1. n + 1 \in 1 .. N /\ (n + 1) - 1 = n /\ n + 1 # 0
    OBVIOUS
  <2>2. lines[n + 1] = Append(lines[n], line(n + 1))
    BY <1>4, <2>1
  <2>3. Append(upTo(n), line(n + 1)) = upTo(n + 1)
    BY <1>1, <2>1
  <2>4. lines[n + 1] = upTo(n + 1)
    BY <1>7, <2>2, <2>3
  <2> QED
    BY <2>4
<1> HIDE DEF T
<1>8. 0 .. N \subseteq T
  BY <1>6, <1>7, InductUpTo
<1>9. lines[N] = upTo(N)
  BY <1>8 DEF T
<1>10. Len(upTo(N)) = N /\ \A i \in 1 .. N : upTo(N)[i] = line(i)
  BY DEF upTo
<1> QED
  BY <1>5, <1>9, <1>10

\* In a table without a broken cell, whose rows are as long as its columns, the
\* line of every row has the row's text under the name of each column, and the
\* vertical form has that text or the column's name.
LEMMA TextsOfTable ==
  ASSUME NEW t \in Tables, IsInjective(t.columns),
         \A i \in DOMAIN t.rows : Len(t.rows[i]) = Len(t.columns) /\ ~ IsBroken(t.rows[i])
  PROVE  /\ \A i \in DOMAIN ToTable(t) : Len(ToTable(t)[i]) = Len(t.columns)
         /\ Len(ToJSONLines(t)) = Len(ToTable(t)) /\ Len(ToVertical(t)) = Len(ToTable(t))
         /\ \A i \in DOMAIN ToTable(t) : \A j \in DOMAIN t.columns :
              /\ ToJSONLines(t)[i][t.columns[j]].value = ToTable(t)[i][j]
              /\ ToVertical(t)[i][j] \in
                   {<<t.columns[j], ToTable(t)[i][j]>>, <<t.columns[j], t.columns[j]>>}
<1> DEFINE N == Len(t.rows)
           C == Len(t.columns)
<1>1. /\ t = Table(t.columns, t.rows)
      /\ t.columns \in Seq(Columns) /\ DOMAIN t.columns = 1 .. C /\ C \in Nat
      /\ t.rows \in Seq(Seq(Cells)) /\ DOMAIN t.rows = 1 .. N /\ N \in Nat
  BY DEF Tables, Table
<1>2. \A i \in 1 .. N : t.rows[i] \in Seq(Cells) /\ DOMAIN t.rows[i] = 1 .. C
  BY <1>1
<1>3. ToTable(t) = [i \in 1 .. N |-> [j \in 1 .. C |-> t.rows[i][j].value]]
  BY <1>1, <1>2 DEF ToTable
<1>4. /\ Len(ToJSONLines(t)) = N
      /\ \A i \in 1 .. N : ToJSONLines(t)[i] = LineOf(t.columns, t.rows[i])
  <2> DEFINE columns == t.columns
             rows == t.rows
  <2>1. t = Table(columns, rows) /\ Len(rows) \in Nat
        /\ \A i \in 1 .. Len(rows) : ~ IsBroken(rows[i])
    BY <1>1
  <2> HIDE DEF columns, rows
  <2>2. /\ Len(ToJSONLines(Table(columns, rows))) = Len(rows)
        /\ \A i \in 1 .. Len(rows) :
             ToJSONLines(Table(columns, rows))[i] = LineOf(columns, rows[i])
    BY <2>1, LineForEveryRow
  <2> QED
    BY <2>1, <2>2 DEF columns, rows
<1>5. ToVertical(t) = [i \in 1 .. N |->
        [j \in 1 .. C |->
          <<t.columns[j], IF Unquotes(t.rows[i][j]) THEN t.rows[i][j].value ELSE t.columns[j]>>]]
  BY <1>1 DEF ToVertical
<1>6. ASSUME NEW i \in 1 .. N, NEW j \in 1 .. C
      PROVE  LineOf(t.columns, t.rows[i])[t.columns[j]].value = t.rows[i][j].value
  <2> DEFINE c == t.columns[j]
             last == SelectLastInSeq(t.columns, LAMBDA d : c = d)
  <2>1. last = j
    <3>1. {k \in 1 .. Len(t.columns) : c = t.columns[k]} = {j}
      BY <1>1 DEF IsInjective
    <3>2. Max({j}) = j
      BY DEF Max
    <3> QED
      BY <3>1, <3>2 DEF SelectLastInSeq
  <2>2. c \in ToSet(t.columns)
    BY <1>1 DEF ToSet
  <2>3. LineOf(t.columns, t.rows[i])[c]
          = IF t.rows[i][j].form = "nil" THEN Cell("null", Empty) ELSE t.rows[i][j]
    BY <2>1, <2>2 DEF LineOf
  <2>4. t.rows[i][j] \in Cells
    BY <1>2
  <2>5. t.rows[i][j].form = "nil" => t.rows[i][j].value = Empty
    BY <2>4 DEF Cells, JSONCells, Cell
  <2> QED
    BY <2>3, <2>5 DEF Cell
<1>7. Len(ToTable(t)) = N /\ Len(ToJSONLines(t)) = N /\ Len(ToVertical(t)) = N
  BY <1>1, <1>3, <1>4, <1>5
<1>8. \A i \in 1 .. N : Len(ToTable(t)[i]) = C
  BY <1>1, <1>3
<1>9. ASSUME NEW i \in 1 .. N, NEW j \in 1 .. C
      PROVE  ToVertical(t)[i][j] \in
               {<<t.columns[j], ToTable(t)[i][j]>>, <<t.columns[j], t.columns[j]>>}
  BY <1>3, <1>5
<1>10. \A i \in 1 .. N : \A j \in 1 .. C :
         ToJSONLines(t)[i][t.columns[j]].value = ToTable(t)[i][j]
  BY <1>3, <1>4, <1>6
<1> QED
  BY <1>1, <1>3, <1>7, <1>8, <1>9, <1>10

-----------------------------------------------------------------------------
(* The columns of lines.                                                    *)

\* The line a column comes from is a number.
LEMMA FirstLineType ==
  ASSUME NEW lines, Len(lines) \in Nat, NEW c
  PROVE  FirstLine(lines, c) \in Nat
<1> DEFINE I == {i \in 1 .. Len(lines) : c \in DOMAIN lines[i]}
<1>1. FirstLine(lines, c) = IF I # {} THEN Min(I) ELSE 0
  BY DEF FirstLine, SelectInSeq
<1>2. I \subseteq Nat
  OBVIOUS
<1> HIDE DEF I
<1>3. CASE I # {}
  <2>1. Min(I) \in I
    BY <1>2, <1>3, MinInSet
  <2>2. Min(I) \in Nat
    BY <1>2, <2>1
  <2> QED
    BY <1>1, <1>3, <2>2
<1>4. CASE I = {}
  BY <1>1, <1>4
<1> QED
  BY <1>3, <1>4

\* Every column has a place among the names, and no two have the same.
LEMMA PlaceOfColumn ==
  ASSUME NEW c \in Columns
  PROVE  Place(c) \in 1 .. Len(NameOrder) /\ NameOrder[Place(c)] = c
<1> DEFINE I == {i \in 1 .. Len(NameOrder) : c = NameOrder[i]}
<1>1. Place(c) = IF I # {} THEN Min(I) ELSE 0
  BY DEF Place, SelectInSeq
<1>2. I \subseteq Nat /\ I # {}
  BY ColumnsAssumption DEF ToSet
<1>3. Place(c) \in I
  <2> HIDE DEF I
  <2> QED
    BY <1>1, <1>2, MinInSet
<1> QED
  BY <1>3

\* What InsertAt does to the positions of a sequence.
LEMMA Inserted ==
  ASSUME NEW S, NEW s \in Seq(S), NEW c \in S, NEW p \in 1 .. Len(s) + 1
  PROVE  /\ InsertAt(s, p, c) \in Seq(S)
         /\ Len(InsertAt(s, p, c)) = Len(s) + 1
         /\ \A i \in 1 .. Len(s) + 1 :
              InsertAt(s, p, c)[i] = IF i < p THEN s[i] ELSE IF i = p THEN c ELSE s[i - 1]
<1> DEFINE a == SubSeq(s, 1, p - 1)
           b == SubSeq(s, p, Len(s))
<1>1. a \in Seq(S) /\ Len(a) = p - 1 /\ \A i \in 1 .. p - 1 : a[i] = s[i]
  OBVIOUS
<1>2. b \in Seq(S) /\ Len(b) = (Len(s) - p) + 1 /\ \A i \in 1 .. Len(b) : b[i] = s[p + i - 1]
  OBVIOUS
<1>3. InsertAt(s, p, c) = (a \o <<c>>) \o b
  BY DEF InsertAt
<1> HIDE DEF a, b
<1> DEFINE ac == a \o <<c>>
<1>4. /\ ac \in Seq(S) /\ Len(ac) = p
      /\ \A i \in 1 .. p : ac[i] = IF i < p THEN s[i] ELSE c
  BY <1>1
<1>5. InsertAt(s, p, c) = ac \o b
  BY <1>3
<1> HIDE DEF ac
<1>6. InsertAt(s, p, c) \in Seq(S) /\ Len(InsertAt(s, p, c)) = Len(s) + 1
  <2>1. ac \in Seq(S) /\ b \in Seq(S)
    BY <1>2, <1>4
  <2>2. ac \o b \in Seq(S) /\ Len(ac \o b) = Len(ac) + Len(b)
    BY <2>1
  <2>3. Len(ac) + Len(b) = Len(s) + 1
    BY <1>2, <1>4
  <2> QED
    BY <1>5, <2>2, <2>3
<1>7. ASSUME NEW i \in 1 .. Len(s) + 1
      PROVE  InsertAt(s, p, c)[i] = IF i < p THEN s[i] ELSE IF i = p THEN c ELSE s[i - 1]
  <2>1. CASE i <= p
    <3>1. (ac \o b)[i] = ac[i]
      BY <1>2, <1>4, <2>1
    <3> QED
      BY <1>4, <1>5, <2>1, <3>1
  <2>2. CASE i > p
    <3>1. (ac \o b)[i] = b[i - p]
      BY <1>2, <1>4, <2>2
    <3>2. i - p \in 1 .. Len(b) /\ p + (i - p) - 1 = i - 1
      BY <1>2, <2>2
    <3> QED
      BY <1>2, <1>5, <2>2, <3>1, <3>2
  <2> QED
    BY <2>1, <2>2
<1> QED
  BY <1>6, <1>7

\* A column that is inserted stops at a place such that it is less than all behind
\* of it and not less than the one in front.
LEMMA InsertStops ==
  ASSUME NEW lines, NEW s \in Seq(Columns), NEW c \in Columns
  PROVE  \E p \in 1 .. Len(s) + 1 :
           /\ Insert(lines, s, c) = InsertAt(s, p, c)
           /\ \A q \in p .. Len(s) : Less(lines, c, s[q])
           /\ p > 1 => ~ Less(lines, c, s[p - 1])
<1> DEFINE P(p) == /\ \A q \in p .. Len(s) : Less(lines, c, s[q])
                   /\ p > 1 => ~ Less(lines, c, s[p - 1])
           I == {p \in 1 .. Len(s) + 1 : \A q \in p .. Len(s) : Less(lines, c, s[q])}
<1>1. Len(s) + 1 \in I /\ I \subseteq Nat
  OBVIOUS
<1>2. PICK p \in I : \A k \in I : p <= k
  <2> HIDE DEF I
  <2> QED
    BY <1>1, LeastNumber
<1>3. p > 1 => ~ Less(lines, c, s[p - 1])
  <2> SUFFICES ASSUME p > 1, Less(lines, c, s[p - 1])
               PROVE  FALSE
    OBVIOUS
  <2>1. \A q \in p - 1 .. Len(s) : q = p - 1 \/ q \in p .. Len(s)
    BY <1>2
  <2>2. p - 1 \in I
    BY <1>2, <2>1
  <2> QED
    BY <1>2, <2>2
<1>4. p \in 1 .. Len(s) + 1 /\ P(p)
  BY <1>2, <1>3
<1> HIDE DEF P
<1> DEFINE stop == CHOOSE r \in 1 .. Len(s) + 1 : P(r)
<1>5. stop \in 1 .. Len(s) + 1 /\ P(stop)
  BY <1>4
<1>6. Insert(lines, s, c) = InsertAt(s, stop, c)
  BY DEF Insert, P
<1> HIDE DEF stop
<1> QED
  BY <1>5, <1>6 DEF P

\* The columns so far, in every round of the sort.
LEMMA RoundsOfSorted ==
  ASSUME NEW lines, NEW columns \in Seq(Columns)
  PROVE  \E done \in [0 .. Len(columns) -> Seq(Columns)] :
           /\ done[0] = <<>>
           /\ \A n \in 1 .. Len(columns) : done[n] = Insert(lines, done[n - 1], columns[n])
           /\ Sorted(lines, columns) = done[Len(columns)]
<1> DEFINE N == Len(columns)
           S == Seq(Columns)
           none == <<>>
           step == [n \in 1 .. N |-> [s \in S |-> Insert(lines, s, columns[n])]]
           Is(g) == g = [n \in 0 .. N |->
                          IF n = 0 THEN <<>> ELSE Insert(lines, g[n - 1], columns[n])]
           f == Folded(S, none, step, N)
<1>1. N \in Nat /\ none \in S
  OBVIOUS
<1>2. step \in [1 .. N -> [S -> S]]
  <2>1. ASSUME NEW n \in 1 .. N, NEW s \in S
        PROVE  Insert(lines, s, columns[n]) \in S
    <3>1. columns[n] \in Columns
      OBVIOUS
    <3> QED
      BY <3>1, InsertStops, Inserted
  <2> QED
    BY <2>1
<1>3. \A n \in 1 .. N : \A s \in S : step[n][s] = Insert(lines, s, columns[n])
  OBVIOUS
<1> HIDE DEF N, S, none, step
<1>4. f \in [0 .. N -> S] /\ f[0] = none /\ \A n \in 1 .. N : f[n] = step[n][f[n - 1]]
  BY <1>1, <1>2, Folding
<1> HIDE DEF f
<1>5. Is(f)
  <2>1. ASSUME NEW n \in 0 .. N
        PROVE  f[n] = IF n = 0 THEN <<>> ELSE Insert(lines, f[n - 1], columns[n])
    <3>1. CASE n = 0
      BY <1>4, <3>1 DEF none
    <3>2. CASE n # 0
      <4>1. n \in 1 .. N /\ n - 1 \in 0 .. N
        BY <1>1, <3>2
      <4> QED
        BY <1>3, <1>4, <3>2, <4>1
    <3> QED
      BY <3>1, <3>2
  <2> QED
    BY <1>4, <2>1
<1> DEFINE done == CHOOSE g : Is(g)
<1>6. Is(done)
  BY <1>5
<1>7. Sorted(lines, columns) = done[N]
  BY DEF Sorted, N
<1> HIDE DEF done
<1>8. done[0] = <<>> /\ \A n \in 1 .. N : done[n] = Insert(lines, done[n - 1], columns[n])
  BY <1>1, <1>6
<1>9. done \in [0 .. N -> S]
  <2> DEFINE T == {n \in 0 .. N : done[n] \in S}
  <2>1. 0 \in T
    BY <1>1, <1>8 DEF none
  <2>2. ASSUME NEW n \in 0 .. N - 1, n \in T
        PROVE  n + 1 \in T
    <3>1. n + 1 \in 1 .. N /\ (n + 1) - 1 = n
      BY <1>1
    <3>2. done[n + 1] = step[n + 1][done[n]]
      BY <1>3, <1>8, <2>2, <3>1
    <3>3. done[n + 1] \in S
      BY <1>2, <2>2, <3>1, <3>2
    <3> QED
      BY <3>1, <3>3
  <2> HIDE DEF T
  <2>3. 0 .. N \subseteq T
    BY <1>1, <2>1, <2>2, InductUpTo
  <2> QED
    BY <1>6, <2>3 DEF T
<1> QED
  BY <1>7, <1>8, <1>9 DEF N, S

\* An insertion adds its element, and keeps all others apart.
LEMMA InsertedElements ==
  ASSUME NEW S, NEW s \in Seq(S), NEW c \in S, NEW p \in 1 .. Len(s) + 1
  PROVE  /\ ToSet(InsertAt(s, p, c)) = ToSet(s) \cup {c}
         /\ IsInjective(s) /\ c \notin ToSet(s) => IsInjective(InsertAt(s, p, c))
<1> DEFINE N == Len(s)
           t == InsertAt(s, p, c)
<1>1. /\ t \in Seq(S) /\ Len(t) = N + 1
      /\ \A i \in 1 .. N + 1 : t[i] = IF i < p THEN s[i] ELSE IF i = p THEN c ELSE s[i - 1]
  BY Inserted
<1> HIDE DEF t
<1>2. N \in Nat /\ DOMAIN s = 1 .. N /\ DOMAIN t = 1 .. N + 1
  BY <1>1
<1>3. ASSUME NEW i \in 1 .. N + 1
      PROVE  t[i] \in ToSet(s) \cup {c}
  <2>1. CASE i < p
    <3>1. i \in DOMAIN s /\ t[i] = s[i]
      BY <1>1, <1>2, <2>1
    <3> QED
      BY <3>1 DEF ToSet
  <2>2. CASE i = p
    BY <1>1, <2>2
  <2>3. CASE i > p
    <3>1. i - 1 \in DOMAIN s /\ t[i] = s[i - 1]
      BY <1>1, <1>2, <2>3
    <3> QED
      BY <3>1 DEF ToSet
  <2> QED
    BY <2>1, <2>2, <2>3
<1>4. ASSUME NEW i \in 1 .. N
      PROVE  s[i] \in ToSet(t)
  <2>1. CASE i < p
    <3>1. i \in DOMAIN t /\ t[i] = s[i]
      BY <1>1, <1>2, <2>1
    <3> QED
      BY <3>1 DEF ToSet
  <2>2. CASE i >= p
    <3>1. i + 1 \in DOMAIN t /\ t[i + 1] = s[(i + 1) - 1] /\ (i + 1) - 1 = i
      BY <1>1, <1>2, <2>2
    <3> QED
      BY <3>1 DEF ToSet
  <2> QED
    BY <2>1, <2>2
<1>5. c \in ToSet(t)
  <2>1. p \in DOMAIN t /\ t[p] = c
    BY <1>1, <1>2
  <2> QED
    BY <2>1 DEF ToSet
<1>6. ToSet(t) = ToSet(s) \cup {c}
  BY <1>2, <1>3, <1>4, <1>5 DEF ToSet
<1>7. ASSUME IsInjective(s), c \notin ToSet(s), NEW i \in 1 .. N + 1, NEW j \in 1 .. N + 1, i < j
      PROVE  t[i] # t[j]
  <2> DEFINE old(k) == IF k < p THEN k ELSE k - 1
  <2>1. \A k \in 1 .. N + 1 : k # p => old(k) \in 1 .. N /\ t[k] = s[old(k)]
    BY <1>1, <1>2
  <2>2. \A k \in 1 .. N : s[k] # c
    BY <1>2, <1>7 DEF ToSet
  <2>3. i # p /\ j # p => old(i) # old(j)
    BY <1>2, <1>7
  <2>4. t[p] = c
    BY <1>1
  <2> HIDE DEF old
  <2>5. \A k, l \in 1 .. N : k # l => s[k] # s[l]
    BY <1>2, <1>7 DEF IsInjective
  <2> QED
    BY <1>7, <2>1, <2>2, <2>3, <2>4, <2>5
<1>8. ASSUME IsInjective(s), c \notin ToSet(s)
      PROVE  IsInjective(t)
  <2>1. \A i, j \in 1 .. N + 1 : i < j => t[i] # t[j]
    BY <1>7, <1>8
  <2>2. \A i, j \in 1 .. N + 1 : i = j \/ i < j \/ j < i
    OBVIOUS
  <2> QED
    BY <1>2, <2>1, <2>2 DEF IsInjective
<1> QED
  BY <1>6, <1>8 DEF t

\* Every round of the sort has the columns up to then, each of them once.
LEMMA RoundsArePermutations ==
  ASSUME NEW lines, NEW columns \in Seq(Columns), IsInjective(columns)
  PROVE  \E done \in [0 .. Len(columns) -> Seq(Columns)] :
           /\ done[0] = <<>>
           /\ \A n \in 1 .. Len(columns) : done[n] = Insert(lines, done[n - 1], columns[n])
           /\ Sorted(lines, columns) = done[Len(columns)]
           /\ \A n \in 0 .. Len(columns) :
                IsInjective(done[n]) /\ ToSet(done[n]) = {columns[i] : i \in 1 .. n}
<1> DEFINE N == Len(columns)
           first(n) == {columns[i] : i \in 1 .. n}
<1>1. PICK done \in [0 .. N -> Seq(Columns)] :
        /\ done[0] = <<>>
        /\ \A n \in 1 .. N : done[n] = Insert(lines, done[n - 1], columns[n])
        /\ Sorted(lines, columns) = done[N]
  BY RoundsOfSorted
<1>2. N \in Nat /\ DOMAIN columns = 1 .. N
  OBVIOUS
<1> DEFINE T == {n \in 0 .. N : IsInjective(done[n]) /\ ToSet(done[n]) = first(n)}
<1>3. 0 \in T
  BY <1>1, <1>2 DEF IsInjective, ToSet
<1>4. ASSUME NEW n \in 0 .. N - 1, n \in T
      PROVE  n + 1 \in T
  <2> DEFINE c == columns[n + 1]
             s == done[n]
  <2>1. n + 1 \in 1 .. N /\ (n + 1) - 1 = n /\ c \in Columns /\ s \in Seq(Columns)
    BY <1>1, <1>2
  <2>2. PICK p \in 1 .. Len(s) + 1 : Insert(lines, s, c) = InsertAt(s, p, c)
    BY <2>1, InsertStops
  <2>3. done[n + 1] = InsertAt(s, p, c)
    BY <1>1, <2>1, <2>2
  <2>4. c \notin first(n)
    BY <1>2, <2>1 DEF IsInjective
  <2>5. first(n + 1) = first(n) \cup {c}
    <3>1. \A i \in 1 .. n + 1 : i = n + 1 \/ i \in 1 .. n
      OBVIOUS
    <3>2. \A i \in 1 .. n : i \in 1 .. n + 1
      OBVIOUS
    <3> QED
      BY <2>1, <3>1, <3>2
  <2>6. IsInjective(s) /\ ToSet(s) = first(n)
    BY <1>4
  <2> HIDE DEF first, c, s
  <2>7. /\ ToSet(InsertAt(s, p, c)) = ToSet(s) \cup {c}
        /\ IsInjective(s) /\ c \notin ToSet(s) => IsInjective(InsertAt(s, p, c))
    BY <2>1, InsertedElements
  <2>8. IsInjective(done[n + 1]) /\ ToSet(done[n + 1]) = first(n + 1)
    BY <2>3, <2>4, <2>5, <2>6, <2>7
  <2> QED
    BY <2>1, <2>8
<1> HIDE DEF T
<1>5. 0 .. N \subseteq T
  BY <1>2, <1>3, <1>4, InductUpTo
<1>6. \A n \in 0 .. N : IsInjective(done[n]) /\ ToSet(done[n]) = first(n)
  BY <1>5 DEF T
<1> QED
  BY <1>1, <1>6

\* The sort loses no column and makes no second one.
LEMMA SortedIsPermutation ==
  ASSUME NEW lines, NEW columns \in Seq(Columns), IsInjective(columns)
  PROVE  /\ Sorted(lines, columns) \in Seq(Columns)
         /\ IsInjective(Sorted(lines, columns))
         /\ ToSet(Sorted(lines, columns)) = ToSet(columns)
<1> DEFINE N == Len(columns)
<1>1. PICK done \in [0 .. N -> Seq(Columns)] :
        /\ Sorted(lines, columns) = done[N]
        /\ \A n \in 0 .. N :
             IsInjective(done[n]) /\ ToSet(done[n]) = {columns[i] : i \in 1 .. n}
  BY RoundsArePermutations
<1>2. N \in 0 .. N /\ {columns[i] : i \in 1 .. N} = ToSet(columns)
  BY DEF ToSet
<1> QED
  BY <1>1, <1>2

\* The order the columns of lines are meant to come in.
Precedes(lines, c, d) ==
  \/ c \in Timed /\ d \notin Timed
  \/ /\ d \in Timed => c \in Timed
     /\ \/ FirstLine(lines, c) < FirstLine(lines, d)
        \/ FirstLine(lines, c) = FirstLine(lines, d) /\ Place(c) > Place(d)

\* It is a strict order, and puts any two columns into one.
LEMMA PrecedesIsOrder ==
  ASSUME NEW lines, Len(lines) \in Nat
  PROVE  /\ \A c, d, e \in Columns :
              Precedes(lines, c, d) /\ Precedes(lines, d, e) => Precedes(lines, c, e)
         /\ \A c, d \in Columns : c = d \/ Precedes(lines, c, d) \/ Precedes(lines, d, c)
<1>1. \A c \in Columns : FirstLine(lines, c) \in Nat /\ Place(c) \in Int
  <2>1. \A c \in Columns : FirstLine(lines, c) \in Nat
    BY FirstLineType
  <2>2. \A c \in Columns : Place(c) \in 1 .. Len(NameOrder)
    BY PlaceOfColumn
  <2> QED
    BY <2>1, <2>2
<1>2. \A c, d \in Columns : Place(c) = Place(d) => c = d
  BY PlaceOfColumn
<1>3. ASSUME NEW c \in Columns, NEW d \in Columns, NEW e \in Columns,
             Precedes(lines, c, d), Precedes(lines, d, e)
      PROVE  Precedes(lines, c, e)
  BY <1>1, <1>3 DEF Precedes
<1>4. ASSUME NEW c \in Columns, NEW d \in Columns, c # d
      PROVE  Precedes(lines, c, d) \/ Precedes(lines, d, c)
  BY <1>1, <1>2, <1>4 DEF Precedes
<1> QED
  BY <1>3, <1>4

\* If the columns are sorted that were collected line by line, and none of time is
\* behind another one in the alphabet, then they come in this order: what the code
\* compares is the order, for each column that is put in front of earlier ones.
LEMMA SortedInOrder ==
  ASSUME NEW lines, Len(lines) \in Nat, NEW columns \in Seq(Columns), IsInjective(columns),
         \A i, j \in DOMAIN columns :
           i < j => FirstLine(lines, columns[i]) <= FirstLine(lines, columns[j]),
         \A c, d \in ToSet(columns) : c \in Timed /\ d \notin Timed => Place(d) < Place(c)
  PROVE  \A i, j \in DOMAIN Sorted(lines, columns) :
           i < j => Precedes(lines, Sorted(lines, columns)[i], Sorted(lines, columns)[j])
<1> DEFINE N == Len(columns)
           InOrder(s) == \A i, j \in 1 .. Len(s) : i < j => Precedes(lines, s[i], s[j])
<1>1. PICK done \in [0 .. N -> Seq(Columns)] :
        /\ done[0] = <<>>
        /\ \A n \in 1 .. N : done[n] = Insert(lines, done[n - 1], columns[n])
        /\ Sorted(lines, columns) = done[N]
        /\ \A n \in 0 .. N :
             IsInjective(done[n]) /\ ToSet(done[n]) = {columns[i] : i \in 1 .. n}
  BY RoundsArePermutations
<1>2. N \in Nat /\ DOMAIN columns = 1 .. N
  OBVIOUS
<1>3. \A c \in Columns : FirstLine(lines, c) \in Nat /\ Place(c) \in Int
  <2>1. \A c \in Columns : FirstLine(lines, c) \in Nat
    BY FirstLineType
  <2>2. \A c \in Columns : Place(c) \in 1 .. Len(NameOrder)
    BY PlaceOfColumn
  <2> QED
    BY <2>1, <2>2
<1>4. ASSUME NEW u \in Seq(Columns), NEW d \in Columns, NEW k \in 1 .. Len(u) + 1
      PROVE  /\ Len(InsertAt(u, k, d)) = Len(u) + 1
             /\ \A i \in 1 .. Len(u) + 1 :
                  InsertAt(u, k, d)[i] = IF i < k THEN u[i] ELSE IF i = k THEN d ELSE u[i - 1]
  BY Inserted
<1>5. ASSUME NEW n \in 0 .. N - 1, InOrder(done[n])
      PROVE  InOrder(done[n + 1])
  <2> DEFINE c == columns[n + 1]
             s == done[n]
             M == Len(s)
  <2>1. n + 1 \in 1 .. N /\ (n + 1) - 1 = n /\ c \in Columns /\ s \in Seq(Columns)
    BY <1>1, <1>2
  <2>2. PICK p \in 1 .. M + 1 :
          /\ Insert(lines, s, c) = InsertAt(s, p, c)
          /\ \A q \in p .. M : Less(lines, c, s[q])
          /\ p > 1 => ~ Less(lines, c, s[p - 1])
    BY <2>1, InsertStops
  <2> DEFINE t == done[n + 1]
  <2>3. t = InsertAt(s, p, c)
    BY <1>1, <2>1, <2>2
  <2>4. /\ Len(t) = M + 1
        /\ \A i \in 1 .. M + 1 : t[i] = IF i < p THEN s[i] ELSE IF i = p THEN c ELSE s[i - 1]
    <3>1. p \in 1 .. Len(s) + 1
      OBVIOUS
    <3> HIDE DEF c, s, t, M
    <3>2. /\ Len(InsertAt(s, p, c)) = Len(s) + 1
          /\ \A i \in 1 .. Len(s) + 1 :
               InsertAt(s, p, c)[i] = IF i < p THEN s[i] ELSE IF i = p THEN c ELSE s[i - 1]
      BY <1>4, <2>1, <3>1
    <3> QED
      BY <2>3, <3>2 DEF M
  <2>5. M \in Nat /\ \A q \in 1 .. M : s[q] \in Columns
    BY <2>1
  <2>6. ASSUME NEW q \in 1 .. M
        PROVE  /\ s[q] # c /\ FirstLine(lines, s[q]) <= FirstLine(lines, c)
               /\ c \in Timed /\ s[q] \notin Timed => Place(s[q]) < Place(c)
               /\ c \notin Timed /\ s[q] \in Timed => Place(c) < Place(s[q])
    <3>1. s[q] \in ToSet(s)
      BY <2>1 DEF ToSet
    <3>2. PICK k \in 1 .. n : s[q] = columns[k]
      BY <1>1, <3>1
    <3>3. k \in 1 .. N /\ k < n + 1
      BY <2>1
    <3>4. s[q] # c
      <4>1. k \in DOMAIN columns /\ n + 1 \in DOMAIN columns /\ k # n + 1
        BY <1>2, <2>1, <3>3
      <4> QED
        BY <3>2, <4>1 DEF IsInjective
    <3>5. FirstLine(lines, s[q]) <= FirstLine(lines, c)
      BY <1>2, <2>1, <3>2, <3>3
    <3>6. s[q] \in ToSet(columns) /\ c \in ToSet(columns)
      BY <1>2, <2>1, <3>2, <3>3 DEF ToSet
    <3> QED
      BY <3>4, <3>5, <3>6
  <2> HIDE DEF c, s, M, t
  <2>7. ASSUME NEW q \in 1 .. M
        PROVE  Less(lines, c, s[q]) <=> Precedes(lines, c, s[q])
    <3>1. s[q] \in Columns /\ c \in Columns
      BY <2>1, <2>5
    <3> QED
      BY <1>3, <2>6, <3>1 DEF Less, Precedes
  <2>8. ASSUME NEW q \in 1 .. M, q >= p
        PROVE  Precedes(lines, c, s[q])
    <3>1. q \in p .. M
      BY <2>8
    <3> QED
      BY <2>2, <2>7, <3>1
  <2>9. ASSUME NEW q \in 1 .. M, q < p
        PROVE  Precedes(lines, s[q], c)
    <3>1. p - 1 \in 1 .. M /\ p > 1
      BY <2>5, <2>9
    <3>2. ~ Precedes(lines, c, s[p - 1]) /\ s[p - 1] # c
      BY <2>2, <2>6, <2>7, <3>1
    <3>3. Precedes(lines, s[p - 1], c)
      BY <2>1, <2>5, <3>1, <3>2, PrecedesIsOrder
    <3>4. CASE q = p - 1
      BY <3>3, <3>4
    <3>5. CASE q < p - 1
      <4>1. Precedes(lines, s[q], s[p - 1])
        BY <1>5, <3>1, <3>5 DEF M, s
      <4> QED
        BY <2>1, <2>5, <3>1, <3>3, <4>1, PrecedesIsOrder
    <3> QED
      BY <2>9, <3>4, <3>5
  <2>10. ASSUME NEW i \in 1 .. M + 1, NEW j \in 1 .. M + 1, i < j
         PROVE  Precedes(lines, t[i], t[j])
    <3>1. CASE i = p
      <4>1. j - 1 \in 1 .. M /\ j - 1 >= p /\ t[i] = c /\ t[j] = s[j - 1]
        BY <2>4, <2>5, <2>10, <3>1
      <4> QED
        BY <2>8, <4>1
    <3>2. CASE j = p
      <4>1. i \in 1 .. M /\ i < p /\ t[i] = s[i] /\ t[j] = c
        BY <2>4, <2>5, <2>10, <3>2
      <4> QED
        BY <2>9, <4>1
    <3>3. CASE i # p /\ j # p
      <4> DEFINE old(k) == IF k < p THEN k ELSE k - 1
      <4>1. /\ old(i) \in 1 .. M /\ old(j) \in 1 .. M /\ old(i) < old(j)
            /\ t[i] = s[old(i)] /\ t[j] = s[old(j)]
        BY <2>4, <2>5, <2>10, <3>3
      <4> HIDE DEF old
      <4>2. \A k, l \in 1 .. M : k < l => Precedes(lines, s[k], s[l])
        BY <1>5 DEF M, s
      <4> QED
        BY <4>1, <4>2
    <3> QED
      BY <3>1, <3>2, <3>3
  <2> QED
    BY <2>4, <2>10 DEF t
<1> DEFINE T == {n \in 0 .. N : InOrder(done[n])}
<1>6. 0 \in T
  BY <1>1, <1>2
<1>7. ASSUME NEW n \in 0 .. N - 1, n \in T
      PROVE  n + 1 \in T
  <2>1. n + 1 \in 0 .. N
    BY <1>2
  <2>2. InOrder(done[n])
    BY <1>7
  <2> HIDE DEF InOrder
  <2> QED
    BY <1>5, <2>1, <2>2
<1> HIDE DEF T
<1>8. 0 .. N \subseteq T
  BY <1>2, <1>6, <1>7, InductUpTo
<1>9. InOrder(done[N]) /\ DOMAIN done[N] = 1 .. Len(done[N])
  BY <1>1, <1>2, <1>8 DEF T
<1> QED
  BY <1>1, <1>9

\* A sequence of a finite set's elements, as many as there are and each of them
\* once, has all of them.
LEMMA SequencesOfSet ==
  ASSUME NEW S, IsFiniteSet(S), NEW s \in SetToSeqs(S)
  PROVE  s \in Seq(S) /\ IsInjective(s) /\ ToSet(s) = S
<1> DEFINE n == Cardinality(S)
<1>1. n \in Nat
  BY FS_CardinalityType
<1>2. s \in [1 .. n -> S] /\ \A i, j \in 1 .. n : i # j => s[i] # s[j]
  BY DEF SetToSeqs
<1>3. IsInjective(s)
  BY <1>2 DEF IsInjective
<1>4. s \in Injection(1 .. n, S)
  BY <1>2, <1>3 DEF Injection
<1>5. IsFiniteSet(1 .. n) /\ Cardinality(1 .. n) = n
  BY <1>1, FS_Interval
<1>6. s \in Surjection(1 .. n, S)
  BY <1>4, <1>5, FS_Injection
<1>7. ToSet(s) = S
  BY <1>2, <1>6 DEF Surjection, ToSet
<1>8. s \in Seq(S)
  BY <1>1, <1>2
<1> QED
  BY <1>3, <1>7, <1>8

\* There are finitely many columns.
LEMMA ColumnsFinite == IsFiniteSet(Columns)
<1> DEFINE n == Len(NameOrder)
<1>1. n \in Nat /\ NameOrder \in [1 .. n -> Columns] /\ ToSet(NameOrder) = Columns
  BY ColumnsAssumption
<1>2. NameOrder \in Surjection(1 .. n, Columns)
  BY <1>1 DEF Surjection, ToSet
<1>3. IsFiniteSet(1 .. n)
  BY <1>1, FS_Interval
<1> QED
  BY <1>2, <1>3, FS_Surjection

\* The keys of lines, as the loop over the lines may find them.
LEMMA CollectedColumns ==
  ASSUME NEW lines \in Seq(Lines), NEW s \in Collected(lines)
  PROVE  /\ s \in Seq(Columns) /\ IsInjective(s) /\ ToSet(s) = Keys(lines)
         /\ \A i, j \in DOMAIN s : i < j => FirstLine(lines, s[i]) <= FirstLine(lines, s[j])
<1>1. \A i \in DOMAIN lines : lines[i] \in Lines
  OBVIOUS
<1>2. Keys(lines) \subseteq Columns
  BY <1>1 DEF Keys, Lines
<1>3. IsFiniteSet(Keys(lines))
  BY <1>2, ColumnsFinite, FS_Subset
<1>4. s \in SetToSeqs(Keys(lines))
  BY DEF Collected
<1>5. s \in Seq(Keys(lines)) /\ IsInjective(s) /\ ToSet(s) = Keys(lines)
  BY <1>3, <1>4, SequencesOfSet
<1>6. s \in Seq(Columns)
  BY <1>2, <1>5
<1> QED
  BY <1>5, <1>6 DEF Collected

\* A table of lines has the keys as its columns and the lines as its rows, each of
\* them with a cell for every column.
LEMMA TableOfLines ==
  ASSUME NEW lines \in Seq(Lines), NEW t \in TablesOfLines(lines)
  PROVE  /\ t \in Tables
         /\ \A i \in DOMAIN t.rows : Len(t.rows[i]) = Len(t.columns)
         /\ IsInjective(t.columns) /\ ToSet(t.columns) = Keys(lines)
         /\ Len(t.rows) = Len(lines)
         /\ \A i \in DOMAIN lines : \A j \in DOMAIN t.columns :
              t.rows[i][j] = IF t.columns[j] \in DOMAIN lines[i] THEN lines[i][t.columns[j]]
                             ELSE Cell("nil", Empty)
<1> DEFINE N == Len(lines)
<1>1. PICK s \in Collected(lines) :
        LET columns == Sorted(lines, s)
        IN t = Table(columns, [i \in DOMAIN lines |-> RowOfLine(lines[i], columns)])
  BY DEF TablesOfLines
<1> DEFINE columns == Sorted(lines, s)
           C == Len(columns)
<1>2. /\ t.columns = columns
      /\ t.rows = [i \in DOMAIN lines |-> RowOfLine(lines[i], columns)]
      /\ t = Table(t.columns, t.rows)
  BY <1>1 DEF Table
<1>3. /\ columns \in Seq(Columns) /\ IsInjective(columns)
      /\ ToSet(columns) = Keys(lines)
  <2>1. s \in Seq(Columns) /\ IsInjective(s) /\ ToSet(s) = Keys(lines)
    BY CollectedColumns
  <2> QED
    BY <2>1, SortedIsPermutation
<1> HIDE DEF columns
<1>4. C \in Nat /\ DOMAIN columns = 1 .. C /\ N \in Nat /\ DOMAIN lines = 1 .. N
  BY <1>3
<1>5. ASSUME NEW i \in 1 .. N, NEW j \in 1 .. C
      PROVE  RowOfLine(lines[i], columns)[j] \in Cells
  <2>1. columns[j] \in DOMAIN lines[i] => lines[i][columns[j]] \in JSONCells
    <3>1. PICK keys \in SUBSET Columns : lines[i] \in [keys -> JSONCells]
      BY <1>4 DEF Lines
    <3> QED
      BY <3>1
  <2>2. RowOfLine(lines[i], columns)[j] =
          IF columns[j] \in DOMAIN lines[i] THEN lines[i][columns[j]] ELSE Cell("nil", Empty)
    BY <1>4 DEF RowOfLine
  <2> QED
    BY <2>1, <2>2 DEF Cells
<1>6. ASSUME NEW i \in 1 .. N
      PROVE  RowOfLine(lines[i], columns) \in Seq(Cells) /\ Len(RowOfLine(lines[i], columns)) = C
  <2> DEFINE row == RowOfLine(lines[i], columns)
  <2>1. row = [j \in 1 .. C |-> row[j]]
    BY <1>4 DEF RowOfLine
  <2> HIDE DEF row
  <2>2. \A j \in 1 .. C : row[j] \in Cells
    BY <1>5 DEF row
  <2> QED
    BY <1>4, <2>1, <2>2 DEF row
<1>7. t.rows \in Seq(Seq(Cells)) /\ Len(t.rows) = N
  BY <1>2, <1>4, <1>6
<1>8. t \in Tables
  BY <1>2, <1>3, <1>7 DEF Tables, Table
<1>9. \A i \in DOMAIN t.rows : Len(t.rows[i]) = Len(t.columns)
  BY <1>2, <1>4, <1>6
<1>10. \A i \in 1 .. N : \A j \in 1 .. C :
         t.rows[i][j] = IF columns[j] \in DOMAIN lines[i] THEN lines[i][columns[j]]
                        ELSE Cell("nil", Empty)
  BY <1>2, <1>4 DEF RowOfLine
<1> QED
  BY <1>2, <1>3, <1>4, <1>7, <1>8, <1>9, <1>10

\* Its columns come in order, unless a name of time stands behind another in the
\* alphabet.
LEMMA TableOfLinesInOrder ==
  ASSUME NEW lines \in Seq(Lines), NEW t \in TablesOfLines(lines),
         \A c, d \in ToSet(t.columns) : c \in Timed /\ d \notin Timed => Place(d) < Place(c)
  PROVE  \A i, j \in DOMAIN t.columns : i < j => Precedes(lines, t.columns[i], t.columns[j])
<1>1. PICK s \in Collected(lines) : t.columns = Sorted(lines, s)
  BY DEF TablesOfLines, Table
<1>2. /\ s \in Seq(Columns) /\ IsInjective(s)
      /\ \A i, j \in DOMAIN s : i < j => FirstLine(lines, s[i]) <= FirstLine(lines, s[j])
  BY CollectedColumns
<1>3. ToSet(s) = ToSet(t.columns)
  BY <1>1, <1>2, SortedIsPermutation
<1>4. Len(lines) \in Nat
  OBVIOUS
<1> QED
  BY <1>1, <1>2, <1>3, <1>4, SortedInOrder

-----------------------------------------------------------------------------
(* Rows of cells.                                                           *)

\* Rows with a cell for every column make a table.
LEMMA TableOfRows ==
  ASSUME NEW columns \in Seq(Columns), NEW n \in Nat, NEW rows,
         rows = [i \in 1 .. n |-> [j \in 1 .. Len(columns) |-> rows[i][j]]],
         \A i \in 1 .. n : \A j \in 1 .. Len(columns) : rows[i][j] \in Cells
  PROVE  /\ Table(columns, rows) \in Tables
         /\ \A i \in DOMAIN Table(columns, rows).rows :
              Len(Table(columns, rows).rows[i]) = Len(Table(columns, rows).columns)
<1> DEFINE C == Len(columns)
<1>1. C \in Nat /\ DOMAIN rows = 1 .. n
  OBVIOUS
<1>2. ASSUME NEW i \in 1 .. n
      PROVE  rows[i] \in Seq(Cells) /\ Len(rows[i]) = C
  <2>1. rows[i] = [j \in 1 .. C |-> rows[i][j]]
    OBVIOUS
  <2> QED
    BY <1>1, <2>1
<1>3. rows \in Seq(Seq(Cells))
  <2>1. rows = [i \in 1 .. n |-> rows[i]]
    OBVIOUS
  <2> QED
    BY <1>2, <2>1
<1> DEFINE t == Table(columns, rows)
<1>4. t.columns = columns /\ t.rows = rows /\ t \in [columns : Seq(Columns), rows : Seq(Seq(Cells))]
  BY <1>3 DEF Table
<1> HIDE DEF t
<1>5. t \in Tables /\ \A i \in DOMAIN t.rows : Len(t.rows[i]) = Len(t.columns)
  BY <1>1, <1>2, <1>4 DEF Tables
<1> QED
  BY <1>5 DEF t

=============================================================================
