--------------------------- MODULE RuleExecution ---------------------------
(***************************************************************************)
(* One call of App.ExecuteRules (app.go): the matched rules, one goroutine  *)
(* per query they depend on, and the updater that collects what the rules   *)
(* render and pushes it to Mackerel.                                        *)
(*                                                                         *)
(* The main goroutine enters every query in the evaluation context as       *)
(* "running" and starts it.  A goroutine whose query returned takes mu,      *)
(* enters the result, renders ALL the matched rules again and flushes the    *)
(* updater, so the memo in Mackerel is rewritten after each query.  Main     *)
(* waits for them and joins the errors.  With no query at all main renders   *)
(* and flushes once itself.                                                  *)
(*                                                                         *)
(* Abstractions.  A rendered text is the status its template saw for each    *)
(* query.  The updater's own lock is never contended, because every use of   *)
(* the updater happens under mu or after the last goroutine ended.  The      *)
(* repetitions in memoSectionNames are dropped: a repeated name writes the   *)
(* same text to the same section.  registering "running" cannot fail, since  *)
(* WithQury rejects only an empty name or an unknown status (function.go).   *)
(***************************************************************************)
EXTENDS Naturals, FiniteSets

CONSTANTS
  Queries,        \* fully qualified query names that templates mention
  Configured,     \* those for which app.queries has an entry
  Rules,          \* the rules of the configuration
  UpdatesAlert,   \* the rules with an update_alert block
  Annotates,      \* the rules with a post_graph_annotation block
  Describes,      \* those of them with an additional_description
  MemoDeps,       \* rule -> queries its memo mentions
  DescDeps,       \* rule -> queries its additional_description mentions
  Services,       \* the services annotations are posted to
  ServiceOf,      \* rule -> its service
  MayFail,        \* rules whose expressions may fail to evaluate at all
  Main,           \* the goroutine that called ExecuteRules
  NoOne,          \* mu is free
  NoText          \* nothing written yet

ASSUME ConstantsAssumption ==
  /\ Configured \subseteq Queries
  /\ UpdatesAlert \subseteq Rules
  /\ Describes \subseteq Annotates
  /\ Annotates \subseteq Rules
  /\ MayFail \subseteq Rules
  /\ MemoDeps \in [Rules -> SUBSET Queries]
  /\ DescDeps \in [Rules -> SUBSET Queries]
  /\ ServiceOf \in [Annotates -> Services]
  /\ Main \notin Queries
  /\ NoOne \notin Queries \cup {Main}

Actors == Queries \cup {Main}

\* provider.EvalContextQueryVariables.Status; "absent" is a query that has not
\* been entered in the evaluation context.
Status == {"absent", "running", "success", "failed"}

\* A rendered text: the status of each query it mentions.
Text == [Queries -> Status \cup {"unused"}]

ASSUME NoTextAssumption == NoText \notin Text

ErrorKinds == {"not found query", "run query", "set status", "rules", "flush"}

VARIABLES
  matched,      \* matchedRules
  toLaunch,     \* queries the launching loop still has to visit
  evalCtx,      \* query -> status in the evaluation context
  pc,           \* actor -> where it is
  result,       \* query -> what query.Run returned
  mu,           \* holder of mu
  errs,         \* the errors collected so far
  snapshot,     \* errs as main read it for its unlocked append
  sectionText,  \* u.memoSectionText: rule -> text
  postServices, \* u.postServices
  descriptions, \* u.additionalDescriptions: service -> texts added to it
  toPost,       \* services the annotation loop still has to visit
  postFailed,   \* an annotation of this flush failed
  memo,         \* rule -> the text of its section in the memo at Mackerel
  annotated,    \* services that have an annotation at Mackerel
  annotation,   \* service -> the rules' texts in that annotation
  outcome       \* what ExecuteRules returned

vars == <<matched, toLaunch, evalCtx, pc, result, mu, errs, snapshot,
          sectionText, postServices, descriptions, toPost, postFailed,
          memo, annotated, annotation, outcome>>

launchVars == <<matched, toLaunch, snapshot>>
updaterVars == <<sectionText, postServices, descriptions>>
flushVars == <<toPost, postFailed>>
mackerelVars == <<memo, annotated, annotation>>

DependsOn(r) == MemoDeps[r] \cup DescDeps[r]

dependsOnQueries == UNION {DependsOn(r) : r \in matched}

\* The text a template renders from the current evaluation context.
Render(deps) ==
  [q \in Queries |-> IF q \in deps THEN evalCtx[q] ELSE "unused"]

\* A template that mentions a query the context does not have is an HCL error.
Renderable(deps) == \A q \in deps : evalCtx[q] # "absent"

TypeOK ==
  /\ matched \subseteq Rules
  /\ toLaunch \subseteq Queries
  /\ evalCtx \in [Queries -> Status]
  /\ pc \in [Actors -> {"idle", "start", "launch", "append", "wait", "running",
                        "returned", "rules", "memo", "annotations", "done"}]
  /\ result \in [Queries -> {"none", "ok", "error", "unmarshalable"}]
  /\ mu \in Queries \cup {NoOne}
  /\ errs \subseteq (ErrorKinds \X Actors)
  /\ snapshot \subseteq (ErrorKinds \X Actors)
  /\ sectionText \in [Rules -> Text \cup {NoText}]
  /\ postServices \subseteq Services
  /\ descriptions \in [Services -> SUBSET (Rules \X Text)]
  /\ toPost \subseteq Services
  /\ postFailed \in BOOLEAN
  /\ memo \in [Rules -> Text \cup {NoText}]
  /\ annotated \subseteq Services
  /\ annotation \in [Services -> SUBSET (Rules \X Text)]
  /\ outcome \in {"none", "ok", "error"}

Init ==
  /\ matched = {}
  /\ toLaunch = {}
  /\ evalCtx = [q \in Queries |-> "absent"]
  /\ pc = [a \in Actors |-> IF a = Main THEN "start" ELSE "idle"]
  /\ result = [q \in Queries |-> "none"]
  /\ mu = NoOne
  /\ errs = {}
  /\ snapshot = {}
  /\ sectionText = [r \in Rules |-> NoText]
  /\ postServices = {}
  /\ descriptions = [s \in Services |-> {}]
  /\ toPost = {}
  /\ postFailed = FALSE
  /\ memo = [r \in Rules |-> NoText]
  /\ annotated = {}
  /\ annotation = [s \in Services |-> {}]
  /\ outcome = "none"

-----------------------------------------------------------------------------
(* The main goroutine.                                                      *)

\* Match the rules against the webhook and collect the queries they need.  A
\* webhook that cannot become an evaluation context is an error at once.
Begin ==
  /\ pc[Main] = "start"
  /\ \/ /\ matched' \in SUBSET Rules
        /\ toLaunch' = UNION {DependsOn(r) : r \in matched'}
        /\ pc' = [pc EXCEPT ![Main] = "launch"]
        /\ UNCHANGED outcome
     \/ /\ pc' = [pc EXCEPT ![Main] = "done"]
        /\ outcome' = "error"
        /\ UNCHANGED <<matched, toLaunch>>
  /\ UNCHANGED <<evalCtx, result, mu, errs, snapshot, mackerelVars>>
  /\ UNCHANGED <<updaterVars, flushVars>>

\* Mutant: main writes back a context read before the goroutines changed it.
LaunchFromStaleContext(q) ==
  /\ pc[Main] = "launch"
  /\ q \in toLaunch \cap Configured
  /\ mu = NoOne
  /\ evalCtx' = [p \in Queries |-> IF p = q \/ evalCtx[p] # "absent"
                                   THEN "running" ELSE "absent"]
  /\ pc' = [pc EXCEPT ![q] = "running"]
  /\ toLaunch' = toLaunch \ {q}
  /\ UNCHANGED <<matched, snapshot, result, mu, errs, outcome, mackerelVars>>
  /\ UNCHANGED <<updaterVars, flushVars>>

\* Enter a query as running, under mu, and start its goroutine.
Launch(q) ==
  /\ pc[Main] = "launch"
  /\ q \in toLaunch \cap Configured
  /\ mu = NoOne
  /\ evalCtx' = [evalCtx EXCEPT ![q] = "running"]
  /\ pc' = [pc EXCEPT ![q] = "running"]
  /\ toLaunch' = toLaunch \ {q}
  /\ UNCHANGED <<matched, snapshot, result, mu, errs, outcome, mackerelVars>>
  /\ UNCHANGED <<updaterVars, flushVars>>

\* A query the configuration does not have: main reads errs to append to it,
\* without taking mu.
LaunchMissing(q) ==
  /\ pc[Main] = "launch"
  /\ q \in toLaunch \ Configured
  /\ snapshot' = errs
  /\ pc' = [pc EXCEPT ![Main] = "append"]
  /\ toLaunch' = toLaunch \ {q}
  /\ UNCHANGED <<matched, evalCtx, result, mu, errs, outcome, mackerelVars>>
  /\ UNCHANGED <<updaterVars, flushVars>>

\* The write of that append races with the appends the goroutines make under
\* mu: it may drop what they appended since, keep it, or be overwritten by it.
AppendMissing ==
  LET mine == <<"not found query", Main>> IN
  /\ pc[Main] = "append"
  /\ errs' \in {snapshot \cup {mine}, errs \cup {mine}}
               \cup (IF errs = snapshot THEN {} ELSE {errs})
  /\ pc' = [pc EXCEPT ![Main] = "launch"]
  /\ UNCHANGED <<launchVars, evalCtx, result, mu, outcome, mackerelVars>>
  /\ UNCHANGED <<updaterVars, flushVars>>

LaunchDone ==
  /\ pc[Main] = "launch"
  /\ toLaunch = {}
  /\ pc' = [pc EXCEPT ![Main] = "wait"]
  /\ UNCHANGED <<launchVars, evalCtx, result, mu, errs, outcome, mackerelVars>>
  /\ UNCHANGED <<updaterVars, flushVars>>

AllJoined == \A q \in Queries : pc[q] \in {"idle", "done"}

\* wg.Wait, then the errors, then the case without queries.
Join ==
  /\ pc[Main] = "wait"
  /\ AllJoined
  /\ IF dependsOnQueries # {} \/ errs # {}
       THEN /\ pc' = [pc EXCEPT ![Main] = "done"]
            /\ outcome' = IF errs # {} THEN "error" ELSE "ok"
       ELSE /\ pc' = [pc EXCEPT ![Main] = "rules"]
            /\ UNCHANGED outcome
  /\ UNCHANGED <<launchVars, evalCtx, result, mu, errs, mackerelVars>>
  /\ UNCHANGED <<updaterVars, flushVars>>

-----------------------------------------------------------------------------
(* The goroutine of a query.                                                *)

\* query.Run answers: rows, an error, or rows that cannot become a value of the
\* evaluation context.
Return(q) ==
  /\ pc[q] = "running"
  /\ pc' = [pc EXCEPT ![q] = "returned"]
  /\ result' \in {[result EXCEPT ![q] = x] : x \in {"ok", "error", "unmarshalable"}}
  /\ UNCHANGED <<launchVars, evalCtx, mu, errs, outcome, mackerelVars>>
  /\ UNCHANGED <<updaterVars, flushVars>>

\* Mutant: the failure is entered in the context and nowhere else.
SettleFailureSilently(q) ==
  /\ pc[q] = "returned"
  /\ result[q] = "error"
  /\ mu = NoOne
  /\ evalCtx' = [evalCtx EXCEPT ![q] = "failed"]
  /\ pc' = [pc EXCEPT ![q] = "done"]
  /\ UNCHANGED <<launchVars, result, mu, errs, outcome, mackerelVars>>
  /\ UNCHANGED <<updaterVars, flushVars>>

\* Mutant: a status that WithQury does not know.
SettleFailureAsError(q) ==
  /\ pc[q] = "returned"
  /\ result[q] = "error"
  /\ mu = NoOne
  /\ evalCtx' = [evalCtx EXCEPT ![q] = "error"]
  /\ errs' = errs \cup {<<"run query", q>>}
  /\ pc' = [pc EXCEPT ![q] = "done"]
  /\ UNCHANGED <<launchVars, result, mu, outcome, mackerelVars>>
  /\ UNCHANGED <<updaterVars, flushVars>>

\* Mutant: a failed query is run again by its goroutine, without a limit.
SettleFailureByRetry(q) ==
  /\ pc[q] = "returned"
  /\ result[q] = "error"
  /\ mu = NoOne
  /\ result' = [result EXCEPT ![q] = "none"]
  /\ pc' = [pc EXCEPT ![q] = "running"]
  /\ UNCHANGED <<launchVars, evalCtx, errs, mu, outcome, mackerelVars>>
  /\ UNCHANGED <<updaterVars, flushVars>>

\* A failed query is entered as failed; the rules are not rendered for it.
SettleFailure(q) ==
  /\ pc[q] = "returned"
  /\ result[q] = "error"
  /\ mu = NoOne
  /\ evalCtx' = [evalCtx EXCEPT ![q] = "failed"]
  /\ errs' = errs \cup {<<"run query", q>>}
  /\ pc' = [pc EXCEPT ![q] = "done"]
  /\ UNCHANGED <<launchVars, result, mu, outcome, mackerelVars>>
  /\ UNCHANGED <<updaterVars, flushVars>>

\* Mutant: the rules are executed without mu.
SettleSuccessUnlocked(q) ==
  /\ pc[q] = "returned"
  /\ result[q] # "error"
  /\ IF result[q] = "ok"
       THEN /\ evalCtx' = [evalCtx EXCEPT ![q] = "success"]
            /\ UNCHANGED errs
       ELSE /\ errs' = errs \cup {<<"set status", q>>}
            /\ UNCHANGED evalCtx
  /\ pc' = [pc EXCEPT ![q] = "rules"]
  /\ UNCHANGED <<launchVars, result, mu, outcome, mackerelVars>>
  /\ UNCHANGED <<updaterVars, flushVars>>

\* Mutant: the result is entered in the context that the goroutine was started
\* with, where the other queries are running.
SettleSuccessFromStart(q) ==
  /\ pc[q] = "returned"
  /\ result[q] # "error"
  /\ mu = NoOne
  /\ mu' = q
  /\ IF result[q] = "ok"
       THEN /\ evalCtx' = [p \in Queries |->
                  IF p = q THEN "success"
                  ELSE IF evalCtx[p] = "absent" THEN "absent" ELSE "running"]
            /\ UNCHANGED errs
       ELSE /\ errs' = errs \cup {<<"set status", q>>}
            /\ UNCHANGED evalCtx
  /\ pc' = [pc EXCEPT ![q] = "rules"]
  /\ UNCHANGED <<launchVars, result, outcome, mackerelVars>>
  /\ UNCHANGED <<updaterVars, flushVars>>

\* A result is entered under mu, which the goroutine then keeps.  Rows that
\* cannot be entered are an error, but the rules are rendered all the same,
\* from the context that still has the query as running.
SettleSuccess(q) ==
  /\ pc[q] = "returned"
  /\ result[q] # "error"
  /\ mu = NoOne
  /\ mu' = q
  /\ IF result[q] = "ok"
       THEN /\ evalCtx' = [evalCtx EXCEPT ![q] = "success"]
            /\ UNCHANGED errs
       ELSE /\ errs' = errs \cup {<<"set status", q>>}
            /\ UNCHANGED evalCtx
  /\ pc' = [pc EXCEPT ![q] = "rules"]
  /\ UNCHANGED <<launchVars, result, outcome, mackerelVars>>
  /\ UNCHANGED <<updaterVars, flushVars>>

-----------------------------------------------------------------------------
(* executeRule, by the holder of mu, or by main when there is no query.     *)

\* The actor ends with an error (main: ExecuteRules returns it).
GiveUp(a, kind) ==
  /\ errs' = errs \cup {<<kind, a>>}
  /\ pc' = [pc EXCEPT ![a] = "done"]
  /\ mu' = NoOne
  /\ outcome' = IF a = Main THEN "error" ELSE outcome

Complete(a) ==
  /\ pc' = [pc EXCEPT ![a] = "done"]
  /\ mu' = NoOne
  /\ outcome' = IF a = Main THEN "ok" ELSE outcome
  /\ UNCHANGED errs

Failing(rs, deps, broken) ==
  {r \in rs : r \in broken \/ ~Renderable(deps[r])}

\* Every matched rule renders what it can; one failure anywhere and nothing is
\* flushed, though what was rendered stays in the updater.
RunRules(a) ==
  /\ pc[a] = "rules"
  /\ \E brokenMemo \in SUBSET MayFail, brokenDesc \in SUBSET MayFail :
       LET badMemo == Failing(matched \cap UpdatesAlert, MemoDeps, brokenMemo)
           badDesc == Failing(matched \cap Describes, DescDeps, brokenDesc)
       IN
       /\ sectionText' =
            [r \in Rules |-> IF r \in (matched \cap UpdatesAlert) \ badMemo
                               THEN Render(MemoDeps[r]) ELSE sectionText[r]]
       /\ postServices' = postServices \cup {ServiceOf[r] : r \in matched \cap Annotates}
       /\ descriptions' =
            [s \in Services |-> descriptions[s] \cup
              {<<r, Render(DescDeps[r])>> :
                  r \in {x \in (matched \cap Describes) \ badDesc : ServiceOf[x] = s}}]
       /\ IF badMemo \cup badDesc # {}
            THEN GiveUp(a, "rules") /\ UNCHANGED flushVars
            ELSE /\ pc' = [pc EXCEPT ![a] = "memo"]
                 /\ toPost' = postServices'
                 /\ postFailed' = FALSE
                 /\ UNCHANGED <<mu, errs, outcome>>
  /\ UNCHANGED <<launchVars, evalCtx, result, mackerelVars>>

written == {r \in Rules : sectionText[r] # NoText}

\* Mutant: only the sections that are new to the memo are written.
FlushMemoOnce(a) ==
  /\ pc[a] = "memo"
  /\ memo' = [r \in Rules |-> IF r \in written /\ memo[r] = NoText
                                 THEN sectionText[r] ELSE memo[r]]
  /\ pc' = [pc EXCEPT ![a] = "annotations"]
  /\ UNCHANGED <<mu, errs, outcome>>
  /\ UNCHANGED <<launchVars, evalCtx, result, annotated, annotation>>
  /\ UNCHANGED <<updaterVars, flushVars>>

\* Mutant: the annotations are posted even if the memo could not be updated.
FlushMemoBestEffort(a) ==
  /\ pc[a] = "memo"
  /\ memo' \in {memo, [r \in Rules |-> IF r \in written THEN sectionText[r] ELSE memo[r]]}
  /\ pc' = [pc EXCEPT ![a] = "annotations"]
  /\ UNCHANGED <<mu, errs, outcome>>
  /\ UNCHANGED <<launchVars, evalCtx, result, annotated, annotation>>
  /\ UNCHANGED <<updaterVars, flushVars>>

\* The memo half of Flush.  Reading the alert or uploading fails without an
\* effect; updating the alert may fail with or without one.  After a failure
\* no annotation is posted.
FlushMemo(a) ==
  /\ pc[a] = "memo"
  /\ LET update == [r \in Rules |-> IF r \in written THEN sectionText[r] ELSE memo[r]]
     IN \/ /\ memo' = update
           /\ pc' = [pc EXCEPT ![a] = "annotations"]
           /\ UNCHANGED <<mu, errs, outcome>>
        \/ /\ written # {}
           /\ memo' \in {memo, update}
           /\ GiveUp(a, "flush")
  /\ UNCHANGED <<launchVars, evalCtx, result, annotated, annotation>>
  /\ UNCHANGED <<updaterVars, flushVars>>

\* One round of the annotation loop; a failure does not stop the others.
PostAnnotation(a, s) ==
  /\ pc[a] = "annotations"
  /\ s \in toPost
  /\ toPost' = toPost \ {s}
  /\ \/ /\ annotated' = annotated \cup {s}
        /\ annotation' = [annotation EXCEPT ![s] = descriptions[s]]
        /\ postFailed' \in {postFailed, TRUE}
     \/ /\ postFailed' = TRUE
        /\ UNCHANGED <<annotated, annotation>>
  /\ UNCHANGED <<launchVars, evalCtx, pc, result, mu, errs, outcome, memo>>
  /\ UNCHANGED updaterVars

EndFlush(a) ==
  /\ pc[a] = "annotations"
  /\ toPost = {}
  /\ IF postFailed THEN GiveUp(a, "flush") ELSE Complete(a)
  /\ UNCHANGED <<launchVars, evalCtx, result, mackerelVars>>
  /\ UNCHANGED <<updaterVars, flushVars>>

-----------------------------------------------------------------------------
Finished == outcome # "none" /\ UNCHANGED vars

MainStep ==
  \/ Begin
  \/ AppendMissing
  \/ LaunchDone
  \/ Join
  \/ \E q \in Queries : Launch(q) \/ LaunchMissing(q)

QueryStep(q) == Return(q) \/ SettleFailure(q) \/ SettleSuccess(q)

ExecuteRule(a) ==
  \/ RunRules(a)
  \/ FlushMemo(a)
  \/ EndFlush(a)
  \/ \E s \in Services : PostAnnotation(a, s)

Next ==
  \/ MainStep
  \/ \E q \in Queries : QueryStep(q)
  \/ \E a \in Actors : ExecuteRule(a)
  \/ Finished

\* Go runs every goroutine that can run, and Mackerel and query.Run answer.
Fairness ==
  /\ WF_vars(MainStep)
  /\ \A q \in Queries : WF_vars(QueryStep(q))
  /\ \A a \in Actors : WF_vars(ExecuteRule(a))

Spec == Init /\ [][Next]_vars

FairSpec == Spec /\ Fairness

-----------------------------------------------------------------------------
(* Properties.                                                              *)

Rendering == {"rules", "memo", "annotations"}

\* The shared evaluation context and the updater are used by one actor at a
\* time: while one renders or flushes, no other does and mu is its own (main
\* renders only when no query is needed and so nobody can take mu).
OneRenderer ==
  \A a \in Actors : pc[a] \in Rendering =>
    /\ \A b \in Actors \ {a} : pc[b] \notin Rendering
    /\ IF a = Main THEN dependsOnQueries = {} /\ AllJoined ELSE mu = a

\* Goroutines replace the shared evalCtx by one another's extended copies, and
\* no replacement loses or reverts the final status another one entered.
SettledStays ==
  [][\A q \in Queries : evalCtx[q] \in {"success", "failed"} => evalCtx'[q] = evalCtx[q]]_vars

\* When ExecuteRules returns nil, the worker acknowledges the webhook for good.
\* Then each matched rule's section shows the success of every query it
\* mentions, and its description, rendered from successes only, is in the
\* annotation of its service.
OkMeansComplete ==
  outcome = "ok" =>
    /\ \A r \in matched \cap UpdatesAlert :
         /\ memo[r] # NoText
         /\ \A q \in MemoDeps[r] : memo[r][q] = "success"
    /\ \A r \in matched \cap Annotates : ServiceOf[r] \in annotated
    /\ \A r \in matched \cap Describes :
         \E t \in Text :
           /\ <<r, t>> \in annotation[ServiceOf[r]]
           /\ \A q \in DescDeps[r] : t[q] = "success"

\* The append for an unconfigured query is not under mu and may drop what the
\* goroutines appended; even so nil is returned only if every needed query is
\* configured, was run and came back with usable rows.
NoFailureIsSwallowed ==
  outcome = "ok" => dependsOnQueries \subseteq {q \in Configured : result[q] = "ok"}

\* An annotation links to an alert: it is not posted while a section that the
\* same rules owe the alert's memo has never been written.
MemoBeforeAnnotation ==
  annotated # {} => \A r \in matched \cap UpdatesAlert : memo[r] # NoText

\* Refinement: what the memo tells grows, and success means all is told.
MemoFacts == Rules \X (Queries \cup {"section"})

NeededFacts ==
  {f \in MemoFacts : /\ pc[Main] # "start"
                     /\ f[1] \in matched \cap UpdatesAlert
                     /\ f[2] \in MemoDeps[f[1]] \cup {"section"}}

ShownFacts ==
  {f \in MemoFacts : /\ memo[f[1]] # NoText
                     /\ \/ f[2] = "section"
                        \/ f[2] \in MemoDeps[f[1]] /\ memo[f[1]][f[2]] = "success"}

Abstract == INSTANCE Report
  WITH Facts <- MemoFacts, needed <- NeededFacts, shown <- ShownFacts

\* The memo never takes back a query's result it has shown, whatever the order
\* in which the goroutines settle, and nil is returned only with all shown.
MemoOnlyGrows == Abstract!Spec

\* ExecuteRules returns, whatever fails, as long as the queries do.
Returns == <>(outcome # "none")

\* function.go renders a query that is still running as "[query ... running]",
\* so a template is never rendered with a configured query missing from the
\* context.
PendingRendersAsRunning ==
  \A a \in Actors : pc[a] = "rules" =>
    \A q \in dependsOnQueries \cap Configured : evalCtx[q] # "absent"

\* function.go renders a failed query as "[query ... failed: ...]", so that
\* whoever reads the memo of a finished execution sees which query failed.
FailureIsShown ==
  \A r \in matched \cap UpdatesAlert, q \in Queries :
    outcome # "none" /\ q \in MemoDeps[r] /\ memo[r] # NoText /\ result[q] = "error"
      => memo[r][q] = "failed"

\* The annotation is overwritten by each flush, so that the text of a rule is in
\* it once.
DescribedOnce ==
  \A s \in Services : \A x, y \in annotation[s] : x[1] = y[1] => x = y

=============================================================================
