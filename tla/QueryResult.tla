----------------------------- MODULE QueryResult -----------------------------
(***************************************************************************)
(* The table that a query results in (provider/query_result.go): how it is    *)
(* made from what a plugin or a database returns, and the texts it is shown   *)
(* as.  Operators only; WorkerQueries applies them.                         *)
(*                                                                         *)
(* Abstractions.  A cell is a form and a value.  Its form tells what JSON it  *)
(* is: a "string", another value ("plain"), "null", "nil" for a RawMessage     *)
(* that was never set, or "broken" for one that is no JSON.  Of the layout of  *)
(* the texts only what stands at which place is left.                       *)
(***************************************************************************)
EXTENDS Naturals, Sequences, SequencesExt

CONSTANTS
  Columns,
  Timed,      \* the columns whose names begin with "time"
  NameOrder,  \* the columns in the order of their names
  Values

ASSUME ColumnsAssumption ==
  /\ Timed \subseteq Columns
  /\ NameOrder \in Seq(Columns) /\ IsInjective(NameOrder) /\ ToSet(NameOrder) = Columns

Cell(form, value) == [form |-> form, value |-> value]

CONSTANT Empty  \* the value of null, of nil and of the empty string

\* What is JSON, and all there may be in a table.
JSONCells == [form : {"string", "plain"}, value : Values]
               \cup [form : {"string", "null"}, value : {Empty}]

Cells == JSONCells \cup [form : {"broken"}, value : Values] \cup {Cell("nil", Empty)}

Table(columns, rows) == [columns |-> columns, rows |-> rows]

Tables == [columns : Seq(Columns), rows : Seq(Seq(Cells))]

-----------------------------------------------------------------------------
(* NewQueryResultWithJSONLines.  A line is an object of JSON.               *)

Lines == UNION {[keys -> JSONCells] : keys \in SUBSET Columns}

Keys(lines) == UNION {DOMAIN lines[i] : i \in DOMAIN lines}

\* columnsMap: the line that a column comes from.
FirstLine(lines, c) == SelectInSeq(lines, LAMBDA line : c \in DOMAIN line)

\* The columns as the loop over the lines, and over the map that each is, may
\* find them.
Collected(lines) ==
  {s \in SetToSeqs(Keys(lines)) :
     \A i, j \in DOMAIN s : i < j => FirstLine(lines, s[i]) <= FirstLine(lines, s[j])}

Place(c) == SelectInSeq(NameOrder, LAMBDA d : c = d)

\* Mutant: only the names are compared.
LessByName(lines, c, d) ==
  \/ c \in Timed /\ d \notin Timed
  \/ (d \in Timed <=> c \in Timed) /\ Place(c) > Place(d)

\* The comparison.  It is no order: of two columns of one line, with a time in
\* front and behind in the alphabet, each is less than the other.
Less(lines, c, d) ==
  \/ c \in Timed /\ d \notin Timed
  \/ FirstLine(lines, c) <= FirstLine(lines, d) /\ Place(c) > Place(d)

\* A column moves to the left while it is less than its neighbour.
Insert(lines, s, c) ==
  InsertAt(s, CHOOSE p \in 1 .. Len(s) + 1 :
                /\ \A q \in p .. Len(s) : Less(lines, c, s[q])
                /\ p > 1 => ~ Less(lines, c, s[p - 1]), c)

\* sort.SliceStable, which is an insertion sort for so few columns.
Sorted(lines, columns) ==
  LET done[n \in 0 .. Len(columns)] ==
        IF n = 0 THEN <<>> ELSE Insert(lines, done[n - 1], columns[n])
  IN done[Len(columns)]

RowOfLine(line, columns) ==
  [i \in DOMAIN columns |->
     IF columns[i] \in DOMAIN line THEN line[columns[i]] ELSE Cell("nil", Empty)]

\* The tables that the lines may become.
TablesOfLines(lines) ==
  {LET columns == Sorted(lines, s)
   IN Table(columns, [i \in DOMAIN lines |-> RowOfLine(lines[i], columns)]) :
     s \in Collected(lines)}

-----------------------------------------------------------------------------
(* NewQueryResultWithSQLRows.                                               *)

\* json.Marshal of what Scan returns: of NULL it is null.
TableOfSQL(columns, rows) ==
  Table(columns, [i \in DOMAIN rows |-> [j \in DOMAIN columns |-> rows[i][j]]])

-----------------------------------------------------------------------------
(* The texts.                                                               *)

\* json.Unmarshal into a string: null is taken for the empty string.
Unquotes(cell) == cell.form \in {"string", "null"}

\* ToTable: a cell that is no string is shown as its JSON.
ToTable(table) ==
  [i \in DOMAIN table.rows |->
     [j \in DOMAIN table.rows[i] |-> table.rows[i][j].value]]

\* ToVertical: a cell that is no string is replaced by the name of its column.
\* Every row must be as long as the columns.
ToVertical(table) ==
  [i \in DOMAIN table.rows |->
     [j \in DOMAIN table.columns |->
        LET cell == table.rows[i][j] IN
        <<table.columns[j],
          IF Unquotes(cell) THEN cell.value ELSE table.columns[j]>>]]

LineOf(columns, row) ==
  [c \in ToSet(columns) |->
     LET j == SelectLastInSeq(columns, LAMBDA d : c = d)
     IN IF row[j].form = "nil" THEN Cell("null", Empty) ELSE row[j]]

IsBroken(row) == \E j \in DOMAIN row : row[j].form = "broken"

\* ToJSONLines: a row with a cell that is no JSON is left out, for the error of
\* Encode is not looked at; a cell that was not set is null.
ToJSONLines(table) ==
  LET lines[n \in 0 .. Len(table.rows)] ==
        IF n = 0 THEN <<>>
        ELSE IF IsBroken(table.rows[n]) THEN lines[n - 1]
        ELSE Append(lines[n - 1], LineOf(table.columns, table.rows[n]))
  IN lines[Len(table.rows)]

=============================================================================
