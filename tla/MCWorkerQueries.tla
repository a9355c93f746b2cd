--------------------------- MODULE MCWorkerQueries ---------------------------
(***************************************************************************)
(* Values for WorkerQueries: a query with labelled and plain blocks, among    *)
(* them labels with a dot and blocks that are repeated; answers with rows that *)
(* are short or long, lines with other keys, and what cannot be read.         *)
(***************************************************************************)
EXTENDS WorkerQueries, TLC

CONSTANTS at, time, value, v, w, post, header, x, y

MCNameOrder == <<at, time, value>>

MCPolicies == {
  [interval |-> 3, jitter |-> 2, max |-> 10, factor |-> 0],
  [interval |-> 9, jitter |-> 5, max |-> 4, factor |-> 3],
  [interval |-> -1, jitter |-> 1, max |-> 4, factor |-> 2],
  [interval |-> 2, jitter |-> -3, max |-> -1, factor |-> -2]}

BlockOf(type, labels, val) == [type |-> type, labels |-> labels, value |-> val]

MCBodies == {
  <<BlockOf(header, <<<<x>>>>, v), BlockOf(header, <<<<y>>>>, w), BlockOf(post, <<>>, v)>>,
  <<BlockOf(header, <<<<x>>>>, v), BlockOf(header, <<<<x, y>>>>, w)>>,
  <<BlockOf(post, <<>>, v), BlockOf(post, <<>>, w)>>}

Schema(unique, hasBody) ==
  (header :> [labels |-> 1, required |-> FALSE, unique |-> FALSE,
              uniqueLabels |-> TRUE, hasBody |-> TRUE]) @@
  (post :> [labels |-> 0, required |-> unique, unique |-> unique,
            uniqueLabels |-> FALSE, hasBody |-> hasBody])

MCSchemas == {Schema(TRUE, TRUE), Schema(FALSE, TRUE), Schema(FALSE, FALSE)}

Plain == Cell("plain", v)
Saying(val) == Cell("text", val)

AnswerOf(params, columns, rows, lines) ==
  [params |-> params, columns |-> columns, rows |-> rows, lines |-> lines]

MCAnswers == {
  AnswerOf(<<"good">>, <<time, value>>, <<<<Saying(v), Plain>>, <<Saying(w)>>>>, <<>>),
  AnswerOf(<<>>, <<time>>, <<<<Saying(v), Plain>>>>, <<>>),
  AnswerOf(<<>>, <<value>>, <<<<Cell("unprintable", v)>>>>, <<>>),
  AnswerOf(<<>>, <<>>, <<<<>>>>, <<>>),
  AnswerOf(<<"bad">>, Nothing, <<>>, <<>>),
  AnswerOf(<<>>, Nothing, <<>>, <<time :> Plain, Nothing>>),
  AnswerOf(<<>>, Nothing, <<>>, <<at :> Plain, value :> Plain>>),
  AnswerOf(<<>>, Nothing, <<>>,
    <<(value :> Plain) @@ (time :> Cell("string", w)), (at :> Plain) @@ (time :> Cell("string", v))>>)}

MCResults == {
  [columns |-> <<time, value>>,
   rows |-> <<<<Cell("string", v), Plain>>, <<Cell("string", w), Cell("null", Empty)>>>>]}

Alike == Permutations(Handlers)
=============================================================================
