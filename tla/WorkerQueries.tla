---------------------------- MODULE WorkerQueries ----------------------------
(***************************************************************************)
(* A worker whose messages need one query: how the query is decoded from the  *)
(* configuration against the schema of its provider, how each run of it goes   *)
(* to a plugin's process over gRPC (plugin/public.go, plugin/provider.go) or to *)
(* a database (provider/sqlprovider/sql.go), what becomes of the answer        *)
(* (QueryResult), and when a message whose query failed is tried again         *)
(* (RetryPolicy, app.go).                                                    *)
(*                                                                         *)
(* Abstractions.  A block of the query is a type, labels and a value; what is  *)
(* inside of it is decoded in the same way, and is not looked at.  A label is   *)
(* the sequence of its parts between dots.  The parameters of a request are a   *)
(* tree, written as the set of its paths with values; no label is the name of  *)
(* an attribute, of which toJSON would make a panic.  Texts of which nothing *)
(* depends here (the statement of the query, the types of the provider) are    *)
(* left out, and with them the name of the query, which is lost on its way:     *)
(* GRPCClient.RunQuery (plugin/provider.go) does not put it into the request,    *)
(* and the plugin reads an empty one from it.                                *)
(***************************************************************************)
EXTENDS RetryPolicy, QueryResult

CONSTANTS
  Types,       \* block types of the query
  Parts,       \* what labels are made of
  Schemas,     \* what GetQuerySchema may answer
  Bodies,      \* the bodies of the query that are looked at
  Answers,     \* what the plugin's RunQuery may return
  Results,     \* what the database may have for the statement
  MaxReceive,
  Nothing,
  Attribute    \* the attribute inside of every block

\* Restrictions of a block type, and whether its own schema is there.
BlockSchema == [labels : Nat, required : BOOLEAN, unique : BOOLEAN,
                uniqueLabels : BOOLEAN, hasBody : BOOLEAN]

Blocks == [type : Types, labels : Seq(Seq(Parts)), value : Values]

\* What fmt.Sprint of a plugin may write: some JSON, or any other text.  In place of
\* a line that is no object of JSON there is Nothing.
Said == [form : {"text", "unprintable", "string", "plain"}, value : Values]
          \cup [form : {"text", "string", "null"}, value : {Empty}]

ASSUME WorkerAssumption ==
  /\ Schemas \subseteq [Types -> BlockSchema]
  /\ Bodies \subseteq Seq(Blocks)
  /\ Attribute \notin Types \cup Parts
  /\ Answers \subseteq [params : Seq({"good", "bad"}), columns : Seq(Columns) \cup {Nothing},
                         rows : Seq(Seq(Said)), lines : Seq(Lines \cup {Nothing})]
  /\ Results \subseteq [columns : Seq(Columns), rows : Seq(Seq(JSONCells))]
  /\ \A r \in Results : \A i \in DOMAIN r.rows : Len(r.rows[i]) = Len(r.columns)
  /\ Nothing \notin Seq(Columns) \cup Lines \cup Tables
  /\ MaxReceive \in Nat \ {0}

VARIABLES
  source,    \* "plugin" or "sql"
  schema,    \* RemoteProvider.querySchema
  body,      \* the query in the file
  nested,    \* RemoteQuery.params.NestedBlocks: path -> value
  loading,   \* how far the configuration has come
  alive,     \* the plugin's process
  pc,        \* handler -> the next step for its message
  receives,  \* handler -> ApproximateReceiveCount
  request,   \* handler -> QueryParameters on their way to the plugin
  given,     \* handler -> what the plugin or the database returned
  wire,      \* handler -> RunQuery_Response
  result     \* handler -> the QueryResult of its query

loadVars == <<source, schema, body, nested, loading>>
callVars == <<request, given, wire, result>>
vars == <<retryVars, loadVars, alive, pc, receives, callVars>>

Stages == {"queued", "run", "called", "returned", "failed", "once", "wait", "acked"}

TypeOK ==
  /\ RetryTypeOK
  /\ source \in {"plugin", "sql"}
  /\ schema \in Schemas \cup {Nothing}
  /\ body \in Bodies
  /\ loading \in {"provider", "query", "ready", "refused"}
  /\ alive \in BOOLEAN
  /\ pc \in [Handlers -> Stages]
  /\ receives \in [Handlers -> 0 .. MaxReceive]
  /\ result \in [Handlers -> Tables \cup {Nothing}]

Init ==
  /\ RetryInit
  /\ source \in {"plugin", "sql"}
  /\ schema = Nothing
  /\ body \in Bodies
  /\ nested = <<>>
  /\ loading = IF source = "sql" THEN "ready" ELSE "provider"
  /\ alive = (source = "plugin")
  /\ pc = [h \in Handlers |-> "queued"]
  /\ receives = [h \in Handlers |-> 0]
  /\ request = [h \in Handlers |-> Nothing]
  /\ given = [h \in Handlers |-> Nothing]
  /\ wire = [h \in Handlers |-> Nothing]
  /\ result = [h \in Handlers |-> Nothing]

-----------------------------------------------------------------------------
(* Loading.                                                                 *)

\* ToProto goes through the schemas of all blocks, and panics in the plugin if the
\* Body of one was not set; NewSchemaWithProto gives the worker the same schema.
HasProto(s) == \A t \in Types : s[t].hasBody

\* NewProvider: the parameters are validated, and the schema is asked for.
NewProvider ==
  /\ loading = "provider"
  /\ \/ \E s \in Schemas :
          IF HasProto(s)
            THEN /\ schema' = s
                 /\ loading' = "query"
                 /\ UNCHANGED alive
            ELSE /\ loading' = "refused"
                 /\ alive' = FALSE
                 /\ UNCHANGED schema
     \/ /\ loading' = "refused"
        /\ UNCHANGED <<schema, alive>>
  /\ UNCHANGED <<retryVars, source, body, nested, pc, receives, callVars>>

\* body.Content and RestrictBlock.
FitsSchema ==
  LET OfType(t) == {i \in DOMAIN body : body[i].type = t} IN
  /\ \A i \in DOMAIN body : Len(body[i].labels) = schema[body[i].type].labels
  /\ \A t \in Types :
       /\ schema[t].required => OfType(t) # {}
       /\ schema[t].unique => \A i, j \in OfType(t) : i = j
       /\ schema[t].uniqueLabels =>
            \A i, j \in OfType(t) : body[i].labels = body[j].labels => i = j

\* The key of NestedBlocks: type and labels, with dots between them, which is all
\* that tells one from the next.
Key(block) == <<block.type>> \o FlattenSeq(block.labels)

\* Mutant: the labels are not part of the key.
DecodeBodyByType(blocks) ==
  [k \in {<<b.type>> : b \in ToSet(blocks)} |->
     blocks[SelectLastInSeq(blocks, LAMBDA b : <<b.type>> = k)].value]

\* The last block with a key stays.
DecodeBody(blocks) ==
  [k \in {Key(b) : b \in ToSet(blocks)} |->
     blocks[SelectLastInSeq(blocks, LAMBDA b : Key(b) = k)].value]

NewQuery ==
  /\ loading = "query"
  /\ IF FitsSchema
       THEN nested' = DecodeBody(body) /\ loading' = "ready"
       ELSE loading' = "refused" /\ UNCHANGED nested
  /\ UNCHANGED <<retryVars, source, schema, body, alive, pc, receives, callVars>>

-----------------------------------------------------------------------------
(* A run of the query.                                                      *)

\* Another delivery of the message.
Receive(h) ==
  /\ loading = "ready"
  /\ pc[h] = "queued"
  /\ receives[h] < MaxReceive
  /\ pc' = [pc EXCEPT ![h] = "run"]
  /\ receives' = [receives EXCEPT ![h] = @ + 1]
  /\ UNCHANGED <<retryVars, loadVars, alive, callVars>>

\* The loop over the blocks, in an order of the map: a block takes the place of
\* all that was merged at its path before.
Merge(tree, k) ==
  {l \in tree : ~ IsPrefix(k, l.path)}
    \cup {[path |-> Append(k, Attribute), value |-> nested[k]]}

Merged(order) ==
  LET tree[n \in 0 .. Len(order)] == IF n = 0 THEN {} ELSE Merge(tree[n - 1], order[n])
  IN tree[Len(order)]

Trees == {Merged(order) : order \in SetToSeqs(DOMAIN nested)}

Goes(h, stage) == pc' = [pc EXCEPT ![h] = stage]

\* Evaluating an attribute fails, in ToJSON, ToInterfaceSlice or the statement.
EvaluationFails(h) ==
  /\ pc[h] = "run"
  /\ Goes(h, "failed")
  /\ UNCHANGED <<retryVars, loadVars, alive, receives, callVars>>

\* RemoteQuery.Run and GRPCClient.RunQuery, up to the call.
Call(h) ==
  /\ pc[h] = "run"
  /\ source = "plugin"
  /\ \E tree \in Trees : request' = [request EXCEPT ![h] = tree]
  /\ Goes(h, "called")
  /\ UNCHANGED <<retryVars, loadVars, alive, receives, given, wire, result>>

\* The plugin's process dies; nobody starts another.
Die ==
  /\ alive
  /\ loading = "ready"
  /\ alive' = FALSE
  /\ UNCHANGED <<retryVars, loadVars, pc, receives, callVars>>

\* The plugin returns an error, or is not there any more.
CallFails(h) ==
  /\ pc[h] = "called"
  /\ Goes(h, "failed")
  /\ request' = [request EXCEPT ![h] = Nothing]
  /\ UNCHANGED <<retryVars, loadVars, alive, receives, given, wire, result>>

\* Mutant: rows go as they are.
ToWireUnpadded(a) ==
  [params |-> a.params, lines |-> a.lines, rows |-> a.rows,
   columns |-> IF a.columns = Nothing THEN <<>> ELSE a.columns]

\* GRPCServer.RunQuery: with columns the rows go, filled up with empty texts, and
\* otherwise the lines.
ToWire(a) ==
  IF a.columns # Nothing
    THEN [params |-> a.params, columns |-> a.columns, lines |-> <<>>,
          rows |-> [i \in DOMAIN a.rows |->
                     [j \in DOMAIN a.columns |->
                        IF j \in DOMAIN a.rows[i] THEN a.rows[i][j]
                        ELSE Cell("text", Empty)]]]
    ELSE [params |-> a.params, columns |-> <<>>, rows |-> <<>>, lines |-> a.lines]

TooLong(a) == a.columns # Nothing /\ \E i \in DOMAIN a.rows : Len(a.rows[i]) > Len(a.columns)

\* The plugin returns a; a row that is longer than the columns is an error.
Serve(h) ==
  /\ pc[h] = "called"
  /\ alive
  /\ \E a \in Answers :
       IF TooLong(a)
         THEN Goes(h, "failed") /\ UNCHANGED <<given, wire>>
         ELSE /\ Goes(h, "returned")
              /\ given' = [given EXCEPT ![h] = a]
              /\ wire' = [wire EXCEPT ![h] = ToWire(a)]
  /\ request' = [request EXCEPT ![h] = Nothing]
  /\ UNCHANGED <<retryVars, loadVars, alive, receives, result>>

\* Mutant: a text is taken for JSON as it is.
CellOfRaw(text) == text

\* Mutant: a text that is no JSON is dropped.
CellOfJSON(text) ==
  IF text.form \in {"text", "unprintable"} THEN Cell("null", Empty) ELSE text

\* A text that is JSON is taken for it; any other is quoted with %q, which is no
\* JSON if there is something unprintable in it.
CellOf(text) ==
  CASE text.form = "text" -> Cell("string", text.value)
    [] text.form = "unprintable" -> Cell("broken", text.value)
    [] OTHER -> text

\* Settling the query marshals its result, which a broken cell does not survive.
Settles(table) == \A i \in DOMAIN table.rows : ~ IsBroken(table.rows[i])

Succeeds(h, table) ==
  /\ result' = [result EXCEPT ![h] = table]
  /\ Goes(h, IF Settles(table) THEN "acked" ELSE "failed")

\* The rest of GRPCClient.RunQuery and RemoteQuery.Run.  No columns arrive as none,
\* whether there were any or not.
Return(h) ==
  /\ pc[h] = "returned"
  /\ LET res == wire[h] IN
       IF "bad" \in ToSet(res.params) \/ (res.columns = <<>> /\ Nothing \in ToSet(res.lines))
         THEN Goes(h, "failed") /\ UNCHANGED result
         ELSE IF res.columns # <<>>
           THEN Succeeds(h, Table(res.columns,
                  [i \in DOMAIN res.rows |->
                    [j \in DOMAIN res.rows[i] |-> CellOf(res.rows[i][j])]]))
           ELSE \E table \in TablesOfLines(res.lines) : Succeeds(h, table)
  /\ wire' = [wire EXCEPT ![h] = Nothing]
  /\ UNCHANGED <<retryVars, loadVars, alive, receives, request, given>>

\* Query.Run of sqlprovider.  The query fails, or a row cannot be scanned; or the
\* rows end early, which nobody asks rows.Err() about.
QueryDatabase(h) ==
  /\ pc[h] = "run"
  /\ source = "sql"
  /\ \/ Goes(h, "failed") /\ UNCHANGED <<given, result>>
     \/ \E r \in Results : \E n \in 0 .. Len(r.rows) :
          /\ given' = [given EXCEPT ![h] = r]
          /\ Succeeds(h, TableOfSQL(r.columns, SubSeq(r.rows, 1, n)))
  /\ UNCHANGED <<retryVars, loadVars, alive, receives, request, wire>>

-----------------------------------------------------------------------------
(* The answer of the worker.                                                *)

Answer(h) ==
  /\ Goes(h, "queued")
  /\ given' = [given EXCEPT ![h] = Nothing]
  /\ result' = [result EXCEPT ![h] = Nothing]
  /\ UNCHANGED <<loadVars, alive, receives, request, wire>>

\* ExecuteRules returned an error: SetRetryAfter, and 500.
FailWithoutWait(h) == pc[h] = "failed" /\ NoRetryAfter(h) /\ Answer(h)

\* The interval is looked at before the Once is entered, which may change it.
FailWithPolicy(h) ==
  /\ pc[h] = "failed"
  /\ HasPolicy
  /\ Goes(h, "once")
  /\ UNCHANGED <<retryVars, loadVars, alive, receives, callVars>>

FailOnce(h) ==
  /\ pc[h] = "once"
  /\ Once
  /\ Goes(h, "wait")
  /\ UNCHANGED <<loadVars, alive, receives, callVars>>

FailAndWait(h) == pc[h] = "wait" /\ Wait(h, receives[h]) /\ Answer(h)

\* Nothing is left to do: refused, or every message was answered for the last time.
Rest ==
  /\ \/ loading = "refused"
     \/ \A h \in Handlers : pc[h] = "acked" \/ (pc[h] = "queued" /\ receives[h] = MaxReceive)
  /\ UNCHANGED vars

HandlerStep(h) ==
  \/ Receive(h)
  \/ EvaluationFails(h)
  \/ Call(h) \/ CallFails(h) \/ Serve(h) \/ Return(h)
  \/ QueryDatabase(h)
  \/ FailWithoutWait(h) \/ FailWithPolicy(h) \/ FailOnce(h) \/ FailAndWait(h)

Next ==
  \/ NewProvider \/ NewQuery
  \/ \E h \in Handlers : HandlerStep(h)
  \/ Die
  \/ Rest

Spec == Init /\ [][Next]_vars

-----------------------------------------------------------------------------
(* Properties.                                                              *)

\* Every block of the query reaches the plugin at its own place, if no other one
\* has the same key or the beginning of it, whatever the order of the maps.
ParametersArrive ==
  \A h \in Handlers : request[h] # Nothing =>
    \A i \in DOMAIN body :
      (\A j \in DOMAIN body \ {i} : ~ IsPrefix(Key(body[j]), Key(body[i]))) =>
        \E l \in request[h] : l.path = Append(Key(body[i]), Attribute)
                               /\ l.value = body[i].value

\* A table tells what the plugin returned: all its rows or lines in their order,
\* each cell under the name it was returned under, and nothing else.
ResultIsTheirs ==
  \A h \in Handlers : pc[h] = "acked" /\ source = "plugin" =>
    LET t == result[h]
        a == given[h]
        At(i, c) == t.rows[i][SelectInSeq(t.columns, LAMBDA d : c = d)]
    IN IF a.columns \notin {Nothing, <<>>}
         THEN /\ t.columns = a.columns
              /\ Len(t.rows) = Len(a.rows)
              /\ \A i \in DOMAIN a.rows : \A j \in DOMAIN a.rows[i] :
                   t.rows[i][j].value = a.rows[i][j].value
         ELSE a.columns = Nothing =>
              /\ IsInjective(t.columns) /\ ToSet(t.columns) = Keys(a.lines)
              /\ Len(t.rows) = Len(a.lines)
              /\ \A i \in DOMAIN a.lines : \A c \in ToSet(t.columns) :
                   IF c \in DOMAIN a.lines[i] THEN At(i, c) = a.lines[i][c]
                   ELSE At(i, c).form = "nil"

\* The columns of lines come in an order that does not depend on Go's maps: those
\* of time first, then those of earlier lines, and names of one line backwards.
\* (Where a name stands behind "time" in the alphabet it does depend on them.)
ColumnsInOrder ==
  \A h \in Handlers :
    (pc[h] = "acked" /\ source = "plugin" /\ given[h].columns = Nothing) =>
      LET c == result[h].columns
          From(i) == FirstLine(given[h].lines, c[i])
      IN (\A i, j \in DOMAIN c : c[i] \in Timed /\ c[j] \notin Timed => Place(c[j]) < Place(c[i])) =>
           \A i, j \in DOMAIN c : i < j =>
             \/ c[i] \in Timed /\ c[j] \notin Timed
             \/ /\ c[j] \in Timed => c[i] \in Timed
                /\ From(i) < From(j) \/ (From(i) = From(j) /\ Place(c[i]) > Place(c[j]))

\* The three texts of a result say the same: as many lines as there are rows, which
\* are as long as the columns (ToVertical takes row[j] without looking), and for each
\* column the cell of the table; but for what is no string, where the vertical form
\* has the column's name instead.
TextsAgree ==
  \A h \in Handlers : pc[h] = "acked" /\ IsInjective(result[h].columns) =>
    LET t == result[h]
        text == ToTable(t)
        lines == ToJSONLines(t)
        vertical == ToVertical(t)
    IN /\ \A i \in DOMAIN text : Len(text[i]) = Len(t.columns)
       /\ Len(lines) = Len(text) /\ Len(vertical) = Len(text)
       /\ \A i \in DOMAIN text : \A j \in DOMAIN t.columns :
            /\ lines[i][t.columns[j]].value = text[i][j]
            /\ vertical[i][j] \in {<<t.columns[j], text[i][j]>>, <<t.columns[j], t.columns[j]>>}

\* A message that failed is hidden for as long as the policy of the file says for
\* its receive count, give or take the jitter, whichever handler came first and
\* put the policy into order; and only a policy that says so leaves it to the queue,
\* or one that was put into order and then has a negative interval, its maximum.
WaitsInBounds ==
  \A h \in Handlers : pc[h] = "queued" /\ receives[h] > 0 =>
    IF written = NoPolicy \/ written.interval < 0
      THEN waits[h] = NoHeader
      ELSE IF waits[h] = NoHeader THEN once /\ written.max < 0
           ELSE InBounds(written, receives[h], waits[h])

=============================================================================
