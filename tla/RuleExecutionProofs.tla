------------------------ MODULE RuleExecutionProofs ------------------------
(***************************************************************************)
(* The inductive invariant of RuleExecution and what follows from it.       *)
(*                                                                         *)
(* Control: mu is held exactly by the query that renders, and main renders   *)
(* only when there is no query.  Launching: a needed query is yet to be      *)
(* launched, has its goroutine, or is unconfigured and an error.  Settling:  *)
(* the context follows the goroutines, and without an error a finished one   *)
(* succeeded.  Publishing: as long as nothing failed, what was rendered last *)
(* is what the current context renders, through the updater to Mackerel.     *)
(***************************************************************************)
EXTENDS RuleExecution, TLAPS

ControlInv ==
  /\ \A q \in Queries : pc[q] \in {"idle", "running", "returned", "done"} \cup Rendering
  /\ pc[Main] \in {"start", "launch", "append", "wait", "done"} \cup Rendering
  /\ \A q \in Queries : mu = q <=> pc[q] \in Rendering
  /\ pc[Main] \in Rendering \cup {"done"} => AllJoined
  /\ pc[Main] \in Rendering => dependsOnQueries = {} /\ errs = {}
  /\ outcome = "none" <=> pc[Main] # "done"
  /\ outcome = "ok" => errs = {}

LaunchInv ==
  /\ toLaunch \subseteq dependsOnQueries
  /\ pc[Main] \notin {"launch", "append"} => toLaunch = {}
  /\ pc[Main] = "start" => matched = {}
  /\ \A q \in Queries : pc[q] # "idle" => q \in (dependsOnQueries \cap Configured) \ toLaunch
  /\ \A q \in dependsOnQueries \ toLaunch :
       pc[q] = "idle" => errs # {} \/ pc[Main] = "append"
  /\ pc[Main] = "append" /\ errs = {} => snapshot = {}

SettleInv ==
  \A q \in Queries :
    /\ evalCtx[q] = "absent" <=> pc[q] = "idle"
    /\ pc[q] \in {"running", "returned"} => evalCtx[q] = "running"
    /\ pc[q] \in Rendering \cup {"done"} =>
         errs # {} \/ (evalCtx[q] = "success" /\ result[q] = "ok")

\* What the current context renders has reached the updater, or Mackerel.
MemoRendered ==
  \A r \in matched \cap UpdatesAlert :
    Renderable(MemoDeps[r]) /\ sectionText[r] = Render(MemoDeps[r])

DescriptionsRendered ==
  /\ \A r \in matched \cap Annotates : ServiceOf[r] \in postServices
  /\ \A r \in matched \cap Describes :
       /\ Renderable(DescDeps[r])
       /\ <<r, Render(DescDeps[r])>> \in descriptions[ServiceOf[r]]

MemoCurrent ==
  \A r \in matched \cap UpdatesAlert :
    Renderable(MemoDeps[r]) /\ memo[r] = Render(MemoDeps[r])

AnnotationsCurrent ==
  /\ \A r \in matched \cap Annotates : ServiceOf[r] \in annotated
  /\ \A r \in matched \cap Describes :
       /\ Renderable(DescDeps[r])
       /\ <<r, Render(DescDeps[r])>> \in annotation[ServiceOf[r]]

\* Nobody renders, nothing failed, and something was published.
Settled ==
  /\ errs = {}
  /\ \A a \in Actors : pc[a] \notin Rendering
  /\ outcome = "ok" \/ \E q \in Queries : pc[q] = "done"

StageInv ==
  \A a \in Actors :
    /\ pc[a] = "memo" =>
         MemoRendered /\ DescriptionsRendered /\ toPost = postServices
    /\ pc[a] = "annotations" =>
         /\ MemoCurrent /\ DescriptionsRendered
         /\ \A s \in postServices \ toPost :
              postFailed \/ (s \in annotated /\ annotation[s] = descriptions[s])

PublishInv ==
  /\ Settled => MemoCurrent /\ AnnotationsCurrent
  /\ StageInv
  /\ \A r \in Rules : sectionText[r] # NoText => r \in matched \cap UpdatesAlert
  /\ \A r \in Rules : memo[r] # NoText =>
       /\ r \in matched \cap UpdatesAlert
       /\ \A q \in Queries : memo[r][q] = "success" => evalCtx[q] = "success"
  /\ MemoBeforeAnnotation
  /\ pc[Main] = "start" => annotated = {}

Inv == TypeOK /\ ControlInv /\ LaunchInv /\ SettleInv /\ PublishInv

-----------------------------------------------------------------------------
(* Types.                                                                    *)

\* What a template renders is a text.
LEMMA RenderIsText ==
  ASSUME TypeOK, NEW deps
  PROVE  Render(deps) \in Text
BY DEF Render, Text, TypeOK, Status

\* Appending an error keeps errs a set of errors.
LEMMA ErrorAppended ==
  ASSUME NEW es \in SUBSET (ErrorKinds \X Actors), NEW kind \in ErrorKinds, NEW a \in Actors
  PROVE  es \cup {<<kind, a>>} \in SUBSET (ErrorKinds \X Actors)
OBVIOUS

ControlTyped ==
  /\ pc \in [Actors -> {"idle", "start", "launch", "append", "wait", "running",
                        "returned", "rules", "memo", "annotations", "done"}]
  /\ mu \in Queries \cup {NoOne}
  /\ errs \in SUBSET (ErrorKinds \X Actors)
  /\ outcome \in {"none", "ok", "error"}

LEMMA GiveUpTyped ==
  ASSUME TypeOK, NEW a \in Actors, NEW kind \in ErrorKinds, GiveUp(a, kind)
  PROVE  ControlTyped'
<1>1. errs' \in SUBSET (ErrorKinds \X Actors)
  BY ErrorAppended DEF GiveUp, TypeOK
<1> QED
  BY <1>1 DEF GiveUp, TypeOK, ControlTyped

\* Every variable keeps its type: no step enters a status that WithQury would
\* reject or writes a section that is not a rendered text.
THEOREM Typing == Spec => []TypeOK
<1>1. Init => TypeOK
  BY ConstantsAssumption DEF Init, TypeOK, Actors, Status
<1>2. TypeOK /\ [Next]_vars => TypeOK'
  <2> SUFFICES ASSUME TypeOK, [Next]_vars PROVE TypeOK'
    OBVIOUS
  <2> USE ConstantsAssumption
  <2>1. CASE Begin
    BY <2>1 DEF Begin, TypeOK, DependsOn, Actors, mackerelVars, updaterVars, flushVars
  <2>2. ASSUME NEW q \in Queries, Launch(q) PROVE TypeOK'
    BY <2>2 DEF Launch, TypeOK, Actors, Status, mackerelVars, updaterVars, flushVars
  <2>3. ASSUME NEW q \in Queries, LaunchMissing(q) PROVE TypeOK'
    BY <2>3 DEF LaunchMissing, TypeOK, Actors, mackerelVars, updaterVars, flushVars
  <2>4. CASE AppendMissing
    <3>1. errs' \in SUBSET (ErrorKinds \X Actors)
      <4>1. "not found query" \in ErrorKinds /\ Main \in Actors
        BY DEF ErrorKinds, Actors
      <4>2. errs \in SUBSET (ErrorKinds \X Actors) /\ snapshot \in SUBSET (ErrorKinds \X Actors)
        BY DEF TypeOK
      <4> QED
        BY <2>4, <4>1, <4>2, ErrorAppended DEF AppendMissing
    <3> QED
      BY <2>4, <3>1 DEF AppendMissing, TypeOK, launchVars, mackerelVars, updaterVars, flushVars
  <2>5. CASE LaunchDone
    BY <2>5 DEF LaunchDone, TypeOK, Actors, launchVars, mackerelVars, updaterVars, flushVars
  <2>6. CASE Join
    BY <2>6 DEF Join, TypeOK, Actors, launchVars, mackerelVars, updaterVars, flushVars
  <2>7. ASSUME NEW q \in Queries, Return(q) PROVE TypeOK'
    BY <2>7 DEF Return, TypeOK, Actors, launchVars, mackerelVars, updaterVars, flushVars
  <2>8. ASSUME NEW q \in Queries, SettleFailure(q) PROVE TypeOK'
    <3>1. errs' \in SUBSET (ErrorKinds \X Actors)
      BY <2>8, ErrorAppended DEF SettleFailure, TypeOK, ErrorKinds, Actors
    <3> QED
      BY <2>8, <3>1 DEF SettleFailure, TypeOK, Actors, Status, launchVars, mackerelVars,
         updaterVars, flushVars
  <2>9. ASSUME NEW q \in Queries, SettleSuccess(q) PROVE TypeOK'
    <3>1. errs' \in SUBSET (ErrorKinds \X Actors)
      <4>1. "set status" \in ErrorKinds /\ q \in Actors
        BY DEF ErrorKinds, Actors
      <4>2. errs \in SUBSET (ErrorKinds \X Actors)
        BY DEF TypeOK
      <4>3. errs \cup {<<"set status", q>>} \in SUBSET (ErrorKinds \X Actors)
        BY <4>1, <4>2, ErrorAppended
      <4> QED
        BY <2>9, <4>2, <4>3 DEF SettleSuccess
    <3> QED
      BY <2>9, <3>1 DEF SettleSuccess, TypeOK, Actors, Status, launchVars, mackerelVars,
         updaterVars, flushVars
  <2>10. ASSUME NEW a \in Actors, RunRules(a) PROVE TypeOK'
    <3>1. /\ sectionText' \in [Rules -> Text \cup {NoText}]
          /\ postServices' \subseteq Services
          /\ descriptions' \in [Services -> SUBSET (Rules \X Text)]
      BY <2>10, RenderIsText DEF RunRules, TypeOK
    <3>2. ControlTyped' /\ toPost' \subseteq Services /\ postFailed' \in BOOLEAN
      <4>1. CASE GiveUp(a, "rules") /\ UNCHANGED flushVars
        BY <4>1, GiveUpTyped DEF ErrorKinds, flushVars, TypeOK
      <4>2. CASE /\ pc' = [pc EXCEPT ![a] = "memo"]
                 /\ toPost' = postServices'
                 /\ postFailed' = FALSE
                 /\ UNCHANGED <<mu, errs, outcome>>
        BY <4>2, <3>1 DEF TypeOK, ControlTyped
      <4> QED
        BY <2>10, <4>1, <4>2 DEF RunRules
    <3> QED
      BY <2>10, <3>1, <3>2 DEF RunRules, TypeOK, ControlTyped, launchVars, mackerelVars
  <2>11. ASSUME NEW a \in Actors, FlushMemo(a) PROVE TypeOK'
    <3>1. ControlTyped'
      <4>1. CASE GiveUp(a, "flush")
        BY <4>1, GiveUpTyped DEF ErrorKinds
      <4>2. CASE pc' = [pc EXCEPT ![a] = "annotations"] /\ UNCHANGED <<mu, errs, outcome>>
        BY <4>2 DEF TypeOK, ControlTyped
      <4> QED
        BY <2>11, <4>1, <4>2 DEF FlushMemo
    <3>2. memo' \in [Rules -> Text \cup {NoText}]
      BY <2>11 DEF FlushMemo, TypeOK
    <3> QED
      BY <2>11, <3>1, <3>2 DEF FlushMemo, ControlTyped, TypeOK, launchVars, updaterVars, flushVars
  <2>12. ASSUME NEW a \in Actors, NEW s \in Services, PostAnnotation(a, s) PROVE TypeOK'
    BY <2>12 DEF PostAnnotation, TypeOK, launchVars, updaterVars
  <2>13. ASSUME NEW a \in Actors, EndFlush(a) PROVE TypeOK'
    <3>1. ControlTyped'
      <4>1. CASE GiveUp(a, "flush")
        BY <4>1, GiveUpTyped DEF ErrorKinds
      <4>2. CASE Complete(a)
        BY <4>2 DEF Complete, TypeOK, ControlTyped
      <4> QED
        BY <2>13, <4>1, <4>2 DEF EndFlush
    <3> QED
      BY <2>13, <3>1 DEF EndFlush, ControlTyped, TypeOK, launchVars, mackerelVars, updaterVars,
         flushVars
  <2>14. CASE UNCHANGED vars
    BY <2>14 DEF vars, TypeOK
  <2> QED
    BY <2>1, <2>2, <2>3, <2>4, <2>5, <2>6, <2>7, <2>8, <2>9, <2>10, <2>11, <2>12, <2>13,
       <2>14 DEF Next, MainStep, QueryStep, ExecuteRule, Finished
<1> QED
  BY <1>1, <1>2, PTL DEF Spec

-----------------------------------------------------------------------------
(* Control: who renders, and when.                                           *)

\* Whoever renders is alone.
LEMMA RendererAlone ==
  ASSUME TypeOK, ControlInv,
         NEW a \in Actors, pc[a] \in Rendering,
         NEW b \in Actors, b # a
  PROVE  pc[b] \notin Rendering
BY ConstantsAssumption DEF TypeOK, ControlInv, Actors, AllJoined, Rendering

\* While mu is free and main is launching, or some goroutine is out, nobody
\* renders.
LEMMA NobodyRenders ==
  ASSUME TypeOK, ControlInv, mu = NoOne,
         pc[Main] \notin Rendering \/ \E q \in Queries : pc[q] \notin {"idle", "done"}
  PROVE  \A a \in Actors : pc[a] \notin Rendering
BY ConstantsAssumption DEF TypeOK, ControlInv, Actors, AllJoined, Rendering

\* The needed queries are fixed by the rules that match.
LEMMA NeededFixed ==
  ASSUME matched' = matched
  PROVE  dependsOnQueries' = dependsOnQueries
BY DEF dependsOnQueries, DependsOn

LEMMA ControlStep ==
  ASSUME Inv, [Next]_vars
  PROVE  ControlInv'
<1> USE ConstantsAssumption
<1>t. TypeOK /\ ControlInv /\ LaunchInv
  BY DEF Inv
<1>1. CASE Begin
  <2>1. \A q \in Queries : pc[q] = "idle"
    BY <1>1, <1>t DEF Begin, LaunchInv, dependsOnQueries
  <2> QED
    BY <1>1, <2>1, <1>t DEF Begin, ControlInv, TypeOK, Actors, AllJoined, Rendering
<1>2. ASSUME NEW q \in Queries, Launch(q) PROVE ControlInv'
  BY <1>2, <1>t, NobodyRenders DEF Launch, ControlInv, TypeOK, Actors, AllJoined, Rendering
<1>3. ASSUME NEW q \in Queries, LaunchMissing(q) PROVE ControlInv'
  BY <1>3, <1>t DEF LaunchMissing, ControlInv, TypeOK, Actors, AllJoined, Rendering
<1>4. CASE AppendMissing
  BY <1>4, <1>t DEF AppendMissing, ControlInv, TypeOK, Actors, AllJoined, Rendering
<1>5. CASE LaunchDone
  BY <1>5, <1>t DEF LaunchDone, ControlInv, TypeOK, Actors, AllJoined, Rendering
<1>6. CASE Join
  BY <1>6, <1>t, NeededFixed DEF Join, ControlInv, TypeOK, Actors, AllJoined, Rendering, launchVars
<1>7. ASSUME NEW q \in Queries, Return(q) PROVE ControlInv'
  BY <1>7, <1>t DEF Return, ControlInv, TypeOK, Actors, AllJoined, Rendering
<1>8. ASSUME NEW q \in Queries, SettleFailure(q) PROVE ControlInv'
  BY <1>8, <1>t DEF SettleFailure, ControlInv, TypeOK, Actors, AllJoined, Rendering
<1>9. ASSUME NEW q \in Queries, SettleSuccess(q) PROVE ControlInv'
  BY <1>9, <1>t, NobodyRenders DEF SettleSuccess, ControlInv, TypeOK, Actors, AllJoined, Rendering
<1>10. ASSUME NEW a \in Actors, NEW kind \in ErrorKinds, pc[a] \in Rendering, GiveUp(a, kind)
       PROVE ControlInv'
  BY <1>10, <1>t, RendererAlone DEF GiveUp, ControlInv, TypeOK, Actors, AllJoined, Rendering
<1>11. ASSUME NEW a \in Actors, pc[a] \in Rendering, matched' = matched,
              NEW stage \in Rendering, pc' = [pc EXCEPT ![a] = stage],
              UNCHANGED <<mu, errs, outcome>>
       PROVE ControlInv'
  BY <1>11, <1>t, NeededFixed DEF ControlInv, TypeOK, Actors, AllJoined, Rendering
<1>12. ASSUME NEW a \in Actors, RunRules(a) PROVE ControlInv'
  BY <1>12, <1>10, <1>11 DEF RunRules, ErrorKinds, Rendering, launchVars
<1>13. ASSUME NEW a \in Actors, FlushMemo(a) PROVE ControlInv'
  BY <1>13, <1>10, <1>11 DEF FlushMemo, ErrorKinds, Rendering, launchVars
<1>14. ASSUME NEW a \in Actors, NEW s \in Services, PostAnnotation(a, s) PROVE ControlInv'
  BY <1>14, <1>t, NeededFixed DEF PostAnnotation, ControlInv, AllJoined, launchVars
<1>15. ASSUME NEW a \in Actors, EndFlush(a) PROVE ControlInv'
  <2>1. CASE Complete(a)
    BY <1>15, <2>1, <1>t, RendererAlone
       DEF EndFlush, Complete, ControlInv, TypeOK, Actors, AllJoined, Rendering
  <2> QED
    BY <1>15, <2>1, <1>10 DEF EndFlush, ErrorKinds, Rendering
<1>16. CASE UNCHANGED vars
  BY <1>16, <1>t, NeededFixed DEF vars, ControlInv, AllJoined
<1> QED
  BY <1>1, <1>2, <1>3, <1>4, <1>5, <1>6, <1>7, <1>8, <1>9, <1>12, <1>13, <1>14, <1>15, <1>16
     DEF Next, MainStep, QueryStep, ExecuteRule, Finished

-----------------------------------------------------------------------------
(* Launching, and the unlocked append.                                       *)

\* An error, once there is one, is never followed by none: the append that is
\* not under mu may lose errors, but only by writing another one.
LEMMA ErrorsStay ==
  ASSUME Inv, [Next]_vars
  PROVE  errs' = {} => errs = {}
<1>t. LaunchInv
  BY DEF Inv
<1>1. CASE AppendMissing
  BY <1>1, <1>t DEF AppendMissing, LaunchInv
<1> QED
  BY <1>1 DEF Next, MainStep, QueryStep, ExecuteRule, Finished, Begin, Launch, LaunchMissing,
     LaunchDone, Join, Return, SettleFailure, SettleSuccess, RunRules, FlushMemo, GiveUp,
     Complete, PostAnnotation, EndFlush, vars

\* A step that leaves the launching alone and moves only queries with a
\* goroutine.
LEMMA NoLaunch ==
  ASSUME LaunchInv, dependsOnQueries \subseteq Queries, UNCHANGED launchVars, errs' = {} => errs = {},
         \A q \in Queries : pc'[q] = "idle" <=> pc[q] = "idle",
         pc'[Main] = "append" <=> pc[Main] = "append",
         pc'[Main] = "launch" <=> pc[Main] = "launch",
         pc'[Main] = "start" => pc[Main] = "start"
  PROVE  LaunchInv'
<1>1. dependsOnQueries' = dependsOnQueries
  BY NeededFixed DEF launchVars
<1> QED
  BY <1>1 DEF LaunchInv, launchVars

LEMMA LaunchStep ==
  ASSUME Inv, [Next]_vars
  PROVE  LaunchInv'
<1> USE ConstantsAssumption
<1>t. TypeOK /\ ControlInv /\ LaunchInv /\ (errs' = {} => errs = {})
  BY ErrorsStay DEF Inv
<1>d. dependsOnQueries \subseteq Queries
  BY <1>t DEF dependsOnQueries, DependsOn, TypeOK
<1>1. CASE Begin
  <2>1. \A q \in Queries : pc[q] = "idle"
    BY <1>1, <1>t DEF Begin, LaunchInv, dependsOnQueries
  <2>2. CASE UNCHANGED <<matched, toLaunch>> /\ pc' = [pc EXCEPT ![Main] = "done"]
    BY <1>1, <1>t, <2>1, <2>2, NeededFixed DEF Begin, LaunchInv, TypeOK, Actors
  <2>3. CASE toLaunch' = UNION {DependsOn(r) : r \in matched'} /\ pc' = [pc EXCEPT ![Main] = "launch"]
    <3>1. toLaunch' = dependsOnQueries'
      BY <2>3 DEF dependsOnQueries, DependsOn
    <3> QED
      BY <1>1, <1>t, <2>1, <2>3, <3>1 DEF Begin, LaunchInv, TypeOK, Actors
  <2> QED
    BY <1>1, <2>2, <2>3 DEF Begin
<1>2. ASSUME NEW q \in Queries, Launch(q) PROVE LaunchInv'
  BY <1>2, <1>t, NeededFixed DEF Launch, LaunchInv, TypeOK, Actors
<1>3. ASSUME NEW q \in Queries, LaunchMissing(q) PROVE LaunchInv'
  BY <1>3, <1>t, NeededFixed DEF LaunchMissing, LaunchInv, TypeOK, Actors
<1>4. CASE AppendMissing
  <2>1. errs' # {}
    BY <1>4, <1>t DEF AppendMissing, LaunchInv
  <2> QED
    BY <1>4, <1>t, <2>1, NeededFixed DEF AppendMissing, LaunchInv, TypeOK, Actors, launchVars
<1>5. CASE LaunchDone
  BY <1>5, <1>t, NeededFixed DEF LaunchDone, LaunchInv, TypeOK, Actors, launchVars
<1>6. CASE Join
  BY <1>6, <1>t, <1>d, NoLaunch DEF Join, TypeOK, Actors
<1>7. ASSUME NEW q \in Queries, Return(q) PROVE LaunchInv'
  BY <1>7, <1>t, <1>d, NoLaunch DEF Return, TypeOK, Actors
<1>8. ASSUME NEW q \in Queries, SettleFailure(q) PROVE LaunchInv'
  BY <1>8, <1>t, <1>d, NoLaunch DEF SettleFailure, TypeOK, Actors
<1>9. ASSUME NEW q \in Queries, SettleSuccess(q) PROVE LaunchInv'
  BY <1>9, <1>t, <1>d, NoLaunch DEF SettleSuccess, TypeOK, Actors
<1>10. ASSUME NEW a \in Actors, pc[a] \in Rendering, UNCHANGED launchVars,
              NEW stage \in Rendering \cup {"done"}, pc' = [pc EXCEPT ![a] = stage]
       PROVE LaunchInv'
  BY <1>10, <1>t, <1>d, NoLaunch DEF TypeOK, Actors, Rendering
<1>11. ASSUME NEW a \in Actors, RunRules(a) PROVE LaunchInv'
  BY <1>11, <1>10 DEF RunRules, GiveUp, Rendering
<1>12. ASSUME NEW a \in Actors, FlushMemo(a) PROVE LaunchInv'
  BY <1>12, <1>10 DEF FlushMemo, GiveUp, Rendering
<1>13. ASSUME NEW a \in Actors, NEW s \in Services, PostAnnotation(a, s) PROVE LaunchInv'
  BY <1>13, <1>t, <1>d, NoLaunch DEF PostAnnotation
<1>14. ASSUME NEW a \in Actors, EndFlush(a) PROVE LaunchInv'
  BY <1>14, <1>10 DEF EndFlush, GiveUp, Complete, Rendering
<1>15. CASE UNCHANGED vars
  BY <1>15, <1>t, <1>d, NoLaunch DEF vars, launchVars
<1> QED
  BY <1>1, <1>2, <1>3, <1>4, <1>5, <1>6, <1>7, <1>8, <1>9, <1>11, <1>12, <1>13, <1>14, <1>15
     DEF Next, MainStep, QueryStep, ExecuteRule, Finished

-----------------------------------------------------------------------------
(* Settling: the evaluation context follows the goroutines.                  *)

LEMMA SettleStep ==
  ASSUME Inv, [Next]_vars
  PROVE  SettleInv'
<1> USE ConstantsAssumption
<1>t. TypeOK /\ ControlInv /\ LaunchInv /\ SettleInv /\ (errs' = {} => errs = {})
  BY ErrorsStay DEF Inv
<1>1. ASSUME UNCHANGED <<evalCtx, result>>,
             \A q \in Queries :
               pc'[q] # pc[q] => pc[q] \in Rendering /\ pc'[q] \in Rendering \cup {"done"}
      PROVE  SettleInv'
  BY <1>1, <1>t DEF SettleInv, Rendering
<1>2. CASE Begin
  BY <1>2, <1>1, <1>t DEF Begin, TypeOK, Actors
<1>3. ASSUME NEW q \in Queries, Launch(q) PROVE SettleInv'
  BY <1>3, <1>t DEF Launch, LaunchInv, SettleInv, TypeOK, Actors, Rendering
<1>4. ASSUME NEW q \in Queries, LaunchMissing(q) PROVE SettleInv'
  BY <1>4, <1>1, <1>t DEF LaunchMissing, TypeOK, Actors
<1>5. CASE AppendMissing
  BY <1>5, <1>1, <1>t DEF AppendMissing, TypeOK, Actors
<1>6. CASE LaunchDone
  BY <1>6, <1>1, <1>t DEF LaunchDone, TypeOK, Actors
<1>7. CASE Join
  BY <1>7, <1>1, <1>t DEF Join, TypeOK, Actors
<1>8. ASSUME NEW q \in Queries, Return(q) PROVE SettleInv'
  BY <1>8, <1>t DEF Return, SettleInv, TypeOK, Actors, Rendering
<1>9. ASSUME NEW q \in Queries, SettleFailure(q) PROVE SettleInv'
  BY <1>9, <1>t DEF SettleFailure, SettleInv, TypeOK, Actors, Rendering
<1>10. ASSUME NEW q \in Queries, SettleSuccess(q) PROVE SettleInv'
  <2>1. errs' # {} \/ (result[q] = "ok" /\ evalCtx' = [evalCtx EXCEPT ![q] = "success"])
    BY <1>10 DEF SettleSuccess
  <2>2. evalCtx'[q] # "absent" /\ \A p \in Queries \ {q} : evalCtx'[p] = evalCtx[p]
    BY <1>10, <1>t DEF SettleSuccess, SettleInv, TypeOK
  <2> QED
    BY <1>10, <1>t, <2>1, <2>2 DEF SettleSuccess, SettleInv, TypeOK, Actors, Rendering
<1>11. ASSUME NEW a \in Actors, RunRules(a) PROVE SettleInv'
  BY <1>11, <1>1, <1>t DEF RunRules, GiveUp, TypeOK, Actors, Rendering
<1>12. ASSUME NEW a \in Actors, FlushMemo(a) PROVE SettleInv'
  BY <1>12, <1>1, <1>t DEF FlushMemo, GiveUp, TypeOK, Actors, Rendering
<1>13. ASSUME NEW a \in Actors, NEW s \in Services, PostAnnotation(a, s) PROVE SettleInv'
  BY <1>13, <1>1 DEF PostAnnotation
<1>14. ASSUME NEW a \in Actors, EndFlush(a) PROVE SettleInv'
  BY <1>14, <1>1, <1>t DEF EndFlush, GiveUp, Complete, TypeOK, Actors, Rendering
<1>15. CASE UNCHANGED vars
  BY <1>15, <1>1 DEF vars
<1> QED
  BY <1>2, <1>3, <1>4, <1>5, <1>6, <1>7, <1>8, <1>9, <1>10, <1>11, <1>12, <1>13, <1>14, <1>15
     DEF Next, MainStep, QueryStep, ExecuteRule, Finished

-----------------------------------------------------------------------------
(* Publishing: what was rendered last is what the context renders now.       *)

\* A text only depends on the queries it mentions.
LEMMA RenderStable ==
  ASSUME NEW deps, \A q \in deps : evalCtx'[q] = evalCtx[q]
  PROVE  Render(deps)' = Render(deps) /\ (Renderable(deps)' <=> Renderable(deps))
BY DEF Render, Renderable

\* A query that enters the context changes no text that could be rendered
\* without it.
LEMMA RenderableStable ==
  ASSUME NEW deps \in SUBSET Queries, Renderable(deps),
         \A q \in Queries : evalCtx[q] # "absent" => evalCtx'[q] = evalCtx[q]
  PROVE  Render(deps)' = Render(deps) /\ Renderable(deps)'
<1>1. \A q \in deps : evalCtx'[q] = evalCtx[q]
  BY DEF Renderable
<1> QED
  BY <1>1, RenderStable

\* A step that renders and publishes nothing, and only adds to the context.
LEMMA PublishFrame ==
  ASSUME TypeOK, PublishInv,
         matched' = matched, UNCHANGED updaterVars, UNCHANGED flushVars, UNCHANGED mackerelVars,
         \A q \in Queries : evalCtx[q] # "absent" => evalCtx'[q] = evalCtx[q],
         Settled' => Settled,
         \A a \in Actors : pc'[a] \in {"memo", "annotations"} => pc'[a] = pc[a],
         pc'[Main] = "start" => pc[Main] = "start"
  PROVE  PublishInv'
<1> USE ConstantsAssumption
<1>1. /\ sectionText' = sectionText /\ postServices' = postServices
      /\ descriptions' = descriptions /\ toPost' = toPost /\ postFailed' = postFailed
      /\ memo' = memo /\ annotated' = annotated /\ annotation' = annotation
  BY DEF updaterVars, flushVars, mackerelVars
<1>2. /\ \A r \in matched \cap UpdatesAlert : Renderable(MemoDeps[r]) =>
            Render(MemoDeps[r])' = Render(MemoDeps[r]) /\ Renderable(MemoDeps[r])'
      /\ \A r \in matched \cap Describes : Renderable(DescDeps[r]) =>
            Render(DescDeps[r])' = Render(DescDeps[r]) /\ Renderable(DescDeps[r])'
  BY RenderableStable DEF TypeOK
<1>3. MemoRendered => MemoRendered'
  BY <1>1, <1>2 DEF MemoRendered
<1>4. MemoCurrent => MemoCurrent'
  BY <1>1, <1>2 DEF MemoCurrent
<1>5. DescriptionsRendered => DescriptionsRendered'
  BY <1>1, <1>2 DEF DescriptionsRendered
<1>6. AnnotationsCurrent => AnnotationsCurrent'
  BY <1>1, <1>2 DEF AnnotationsCurrent
<1>7. StageInv'
  BY <1>1, <1>3, <1>4, <1>5 DEF PublishInv, StageInv
<1>8. MemoBeforeAnnotation'
  BY <1>1 DEF PublishInv, MemoBeforeAnnotation
<1> QED
  BY <1>1, <1>4, <1>6, <1>7, <1>8 DEF PublishInv

\* A step after which somebody is about to render, or something has failed.
LEMMA PublishUnsettled ==
  ASSUME PublishInv,
         matched' = matched, UNCHANGED updaterVars, UNCHANGED mackerelVars,
         \A q \in Queries : evalCtx[q] = "success" => evalCtx'[q] = "success",
         ~Settled',
         \A a \in Actors : pc'[a] \notin {"memo", "annotations"},
         pc'[Main] = "start" => pc[Main] = "start"
  PROVE  PublishInv'
<1>1. /\ sectionText' = sectionText /\ memo' = memo
      /\ annotated' = annotated
  BY DEF updaterVars, mackerelVars
<1>2. StageInv'
  BY DEF StageInv
<1>3. MemoBeforeAnnotation'
  BY <1>1 DEF PublishInv, MemoBeforeAnnotation
<1> QED
  BY <1>1, <1>2, <1>3 DEF PublishInv

LEMMA PublishMain ==
  ASSUME Inv, [Next]_vars, MainStep
  PROVE  PublishInv'
<1> USE ConstantsAssumption
<1>t. TypeOK /\ ControlInv /\ LaunchInv /\ SettleInv /\ PublishInv /\ (errs' = {} => errs = {})
  BY ErrorsStay DEF Inv
<1>1. CASE Begin
  <2>1. \A q \in Queries : pc[q] = "idle"
    BY <1>1, <1>t DEF Begin, LaunchInv, dependsOnQueries
  <2>2. /\ \A r \in Rules : sectionText'[r] = NoText /\ memo'[r] = NoText
        /\ annotated' = {}
    BY <1>1, <1>t DEF Begin, LaunchInv, PublishInv, updaterVars, mackerelVars
  <2>3. \A a \in Actors : pc'[a] \in {"idle", "launch", "done"} /\ outcome' # "ok"
    BY <1>1, <1>t, <2>1 DEF Begin, TypeOK, Actors, ControlInv
  <2>4. StageInv' /\ MemoBeforeAnnotation'
    BY <2>2, <2>3 DEF StageInv, MemoBeforeAnnotation
  <2>5. ~Settled'
    BY <1>1, <1>t, <2>1, <2>3 DEF Begin, Settled, TypeOK, Actors
  <2> QED
    BY <2>2, <2>4, <2>5 DEF PublishInv
<1>2. ASSUME NEW q \in Queries, Launch(q) PROVE PublishInv'
  <2>1. pc[q] = "idle" /\ evalCtx[q] = "absent"
    BY <1>2, <1>t DEF Launch, LaunchInv, SettleInv
  <2>2. \A p \in Queries : evalCtx[p] # "absent" => evalCtx'[p] = evalCtx[p]
    BY <1>2, <1>t, <2>1 DEF Launch, TypeOK
  <2>3. Settled' => Settled
    BY <1>2, <1>t, <2>1 DEF Launch, Settled, TypeOK, Actors, Rendering
  <2> QED
    BY <1>2, <1>t, <2>2, <2>3, PublishFrame DEF Launch, TypeOK, Actors
<1>3. ASSUME NEW q \in Queries, LaunchMissing(q) PROVE PublishInv'
  <2>1. Settled' => Settled
    BY <1>3, <1>t DEF LaunchMissing, Settled, TypeOK, Actors, Rendering
  <2> QED
    BY <1>3, <1>t, <2>1, PublishFrame DEF LaunchMissing, TypeOK, Actors
<1>4. CASE AppendMissing
  <2>1. Settled' => Settled
    BY <1>4, <1>t DEF AppendMissing, Settled, TypeOK, Actors, Rendering
  <2> QED
    BY <1>4, <1>t, <2>1, PublishFrame DEF AppendMissing, TypeOK, Actors, launchVars
<1>5. CASE LaunchDone
  <2>1. Settled' => Settled
    BY <1>5, <1>t DEF LaunchDone, Settled, TypeOK, Actors, Rendering
  <2> QED
    BY <1>5, <1>t, <2>1, PublishFrame DEF LaunchDone, TypeOK, Actors, launchVars
<1>6. CASE Join
  <2>1. Settled' => Settled
    <3>1. CASE dependsOnQueries # {} /\ errs = {}
      <4>1. PICK q \in dependsOnQueries : TRUE
        BY <3>1
      <4>2. q \in Queries
        BY <1>t DEF dependsOnQueries, DependsOn, TypeOK
      <4>3. pc[q] = "done"
        BY <1>6, <1>t, <3>1, <4>1, <4>2 DEF Join, LaunchInv, AllJoined
      <4>4. \A a \in Actors : pc[a] \notin Rendering
        BY <1>6 DEF Join, AllJoined, Actors, Rendering
      <4> QED
        BY <3>1, <4>2, <4>3, <4>4 DEF Settled
    <3>2. CASE errs # {}
      BY <1>t, <3>2 DEF Settled
    <3>3. CASE dependsOnQueries = {} /\ errs = {}
      BY <1>6, <1>t, <3>3 DEF Join, Settled, TypeOK, Actors, Rendering
    <3> QED
      BY <3>1, <3>2, <3>3
  <2> QED
    BY <1>6, <1>t, <2>1, PublishFrame DEF Join, TypeOK, Actors, launchVars
<1> QED
  BY <1>1, <1>2, <1>3, <1>4, <1>5, <1>6 DEF MainStep

LEMMA PublishQuery ==
  ASSUME Inv, [Next]_vars, NEW q \in Queries, QueryStep(q)
  PROVE  PublishInv'
<1> USE ConstantsAssumption
<1>t. TypeOK /\ ControlInv /\ LaunchInv /\ SettleInv /\ PublishInv
  BY DEF Inv
<1>1. CASE Return(q)
  <2>1. Settled' => Settled
    BY <1>1, <1>t DEF Return, Settled, TypeOK, Actors, Rendering
  <2> QED
    BY <1>1, <1>t, <2>1, PublishFrame DEF Return, TypeOK, Actors, launchVars
<1>2. CASE SettleFailure(q)
  <2>1. \A a \in Actors : pc'[a] \notin {"memo", "annotations"}
    BY <1>2, <1>t, NobodyRenders DEF SettleFailure, TypeOK, Actors, Rendering
  <2>2. ~Settled'
    <3>1. errs' # {}
      BY <1>2 DEF SettleFailure
    <3> QED
      BY <3>1 DEF Settled
  <2>3. \A p \in Queries : evalCtx[p] = "success" => evalCtx'[p] = "success"
    BY <1>2, <1>t DEF SettleFailure, SettleInv, TypeOK
  <2> QED
    BY <1>2, <1>t, <2>1, <2>2, <2>3, PublishUnsettled
       DEF SettleFailure, TypeOK, Actors, launchVars
<1>3. CASE SettleSuccess(q)
  <2>1. \A a \in Actors : pc'[a] \notin {"memo", "annotations"}
    BY <1>3, <1>t, NobodyRenders DEF SettleSuccess, TypeOK, Actors, Rendering
  <2>2. ~Settled'
    BY <1>3, <1>t DEF SettleSuccess, Settled, TypeOK, Actors, Rendering
  <2>3. \A p \in Queries : evalCtx[p] = "success" => evalCtx'[p] = "success"
    BY <1>3, <1>t DEF SettleSuccess, TypeOK
  <2> QED
    BY <1>3, <1>t, <2>1, <2>2, <2>3, PublishUnsettled
       DEF SettleSuccess, TypeOK, Actors, launchVars
<1> QED
  BY <1>1, <1>2, <1>3 DEF QueryStep

\* The evaluation context and the rules stand still while somebody renders.
LEMMA RenderingFrame ==
  ASSUME UNCHANGED <<matched, evalCtx>>
  PROVE  /\ \A r \in Rules : Render(MemoDeps[r])' = Render(MemoDeps[r])
         /\ \A r \in Rules : Renderable(MemoDeps[r])' <=> Renderable(MemoDeps[r])
         /\ \A r \in Rules : Render(DescDeps[r])' = Render(DescDeps[r])
         /\ \A r \in Rules : Renderable(DescDeps[r])' <=> Renderable(DescDeps[r])
BY DEF Render, Renderable

LEMMA PublishRunRules ==
  ASSUME Inv, [Next]_vars, NEW a \in Actors, RunRules(a)
  PROVE  PublishInv'
<1> USE ConstantsAssumption, NoTextAssumption
<1>t. TypeOK /\ ControlInv /\ PublishInv
  BY DEF Inv
<1>f. /\ pc[a] \in Rendering /\ UNCHANGED <<matched, evalCtx, memo, annotated, annotation>>
      /\ pc'[Main] = "start" => pc[Main] = "start"
  BY <1>t DEF RunRules, GiveUp, Rendering, launchVars, mackerelVars, TypeOK, Actors
<1>1. PICK brokenMemo \in SUBSET MayFail, brokenDesc \in SUBSET MayFail :
        LET badMemo == Failing(matched \cap UpdatesAlert, MemoDeps, brokenMemo)
            badDesc == Failing(matched \cap Describes, DescDeps, brokenDesc)
        IN
        /\ sectionText' =
             [r \in Rules |-> IF r \in (matched \cap UpdatesAlert) \ badMemo
                                THEN Render(MemoDeps[r]) ELSE sectionText[r]]
        /\ postServices' = postServices \cup {ServiceOf[r] : r \in matched \cap Annotates}
        /\ descriptions' =
             [s \in Services |-> descriptions[s] \cup
               {<<r, Render(DescDeps[r])>> :
                   r \in {x \in (matched \cap Describes) \ badDesc : ServiceOf[x] = s}}]
        /\ IF badMemo \cup badDesc # {}
             THEN GiveUp(a, "rules") /\ UNCHANGED flushVars
             ELSE /\ pc' = [pc EXCEPT ![a] = "memo"]
                  /\ toPost' = postServices'
                  /\ postFailed' = FALSE
                  /\ UNCHANGED <<mu, errs, outcome>>
  BY DEF RunRules
<1> DEFINE badMemo == Failing(matched \cap UpdatesAlert, MemoDeps, brokenMemo)
           badDesc == Failing(matched \cap Describes, DescDeps, brokenDesc)
<1>2. \A b \in Actors : b # a => pc'[b] = pc[b] /\ pc[b] \notin Rendering
  BY <1>1, <1>f, <1>t, RendererAlone DEF GiveUp, TypeOK
<1>3. \A r \in Rules : sectionText'[r] # NoText => r \in matched \cap UpdatesAlert
  BY <1>1, <1>t DEF PublishInv
<1>4. ~Settled'
  <2>1. CASE GiveUp(a, "rules")
    <3>1. errs' # {}
      BY <2>1 DEF GiveUp
    <3> QED
      BY <3>1 DEF Settled
  <2>2. CASE pc' = [pc EXCEPT ![a] = "memo"]
    BY <2>2, <1>t DEF Settled, TypeOK, Rendering
  <2> QED
    BY <1>1, <2>1, <2>2
<1>5. StageInv'
  <2>1. CASE badMemo \cup badDesc # {}
    <3>1. pc'[a] = "done"
      BY <1>1, <1>t, <2>1 DEF GiveUp, TypeOK
    <3> QED
      BY <1>2, <3>1 DEF StageInv, Rendering
  <2>2. CASE badMemo \cup badDesc = {}
    <3>1. /\ pc' = [pc EXCEPT ![a] = "memo"] /\ toPost' = postServices'
      BY <1>1, <2>2
    <3>2. MemoRendered'
      <4>1. SUFFICES ASSUME NEW r \in matched \cap UpdatesAlert
                     PROVE  Renderable(MemoDeps[r]) /\ sectionText'[r] = Render(MemoDeps[r])
        BY <1>f, <1>t, RenderingFrame DEF MemoRendered, TypeOK
      <4>2. r \notin badMemo
        BY <2>2
      <4>3. Renderable(MemoDeps[r])
        BY <4>2 DEF Failing
      <4>4. sectionText' =
              [x \in Rules |-> IF x \in (matched \cap UpdatesAlert) \ badMemo
                                 THEN Render(MemoDeps[x]) ELSE sectionText[x]]
        BY <1>1
      <4> HIDE DEF badMemo
      <4> QED
        BY <4>2, <4>3, <4>4, <1>t DEF TypeOK
    <3>3. DescriptionsRendered'
      <4>1. \A r \in matched \cap Annotates : ServiceOf[r] \in postServices'
        BY <1>1
      <4>2. ASSUME NEW r \in matched \cap Describes
            PROVE  Renderable(DescDeps[r]) /\ <<r, Render(DescDeps[r])>> \in descriptions'[ServiceOf[r]]
        <5>1. r \notin badDesc
          BY <2>2
        <5>2. Renderable(DescDeps[r])
          BY <5>1 DEF Failing
        <5>3. descriptions' =
                [s \in Services |-> descriptions[s] \cup
                  {<<x, Render(DescDeps[x])>> :
                      x \in {y \in (matched \cap Describes) \ badDesc : ServiceOf[y] = s}}]
          BY <1>1
        <5>4. ServiceOf[r] \in Services
          OBVIOUS
        <5> HIDE DEF badDesc
        <5> QED
          BY <5>1, <5>2, <5>3, <5>4
      <4> QED
        BY <4>1, <4>2, <1>f, <1>t, RenderingFrame DEF DescriptionsRendered, TypeOK
    <3> QED
      BY <1>2, <1>t, <3>1, <3>2, <3>3 DEF StageInv, Rendering, TypeOK
  <2> QED
    BY <2>1, <2>2
<1>6. MemoBeforeAnnotation'
  BY <1>f, <1>t DEF PublishInv, MemoBeforeAnnotation
<1> QED
  BY <1>f, <1>t, <1>3, <1>4, <1>5, <1>6 DEF PublishInv

\* Ending with an error leaves nothing settled and nobody rendering.
LEMMA AfterGiveUp ==
  ASSUME TypeOK, ControlInv, NEW a \in Actors, pc[a] \in Rendering,
         NEW kind, GiveUp(a, kind)
  PROVE  /\ ~Settled' /\ StageInv'
         /\ pc'[Main] = "start" => pc[Main] = "start"
<1>1. errs' # {}
  BY DEF GiveUp
<1>2. \A b \in Actors : pc'[b] \notin Rendering
  BY RendererAlone DEF GiveUp, TypeOK, Rendering
<1>3. pc'[Main] = "start" => pc[Main] = "start"
  BY ConstantsAssumption DEF GiveUp, TypeOK, Actors
<1> QED
  BY <1>1, <1>2, <1>3 DEF Settled, StageInv, Rendering

LEMMA PublishFlushMemo ==
  ASSUME Inv, [Next]_vars, NEW a \in Actors, FlushMemo(a)
  PROVE  PublishInv'
<1> USE ConstantsAssumption, NoTextAssumption
<1>t. TypeOK /\ ControlInv /\ PublishInv
  BY DEF Inv
<1>f. /\ pc[a] = "memo" /\ pc[a] \in Rendering
      /\ UNCHANGED <<matched, evalCtx, annotated, annotation, sectionText, postServices,
                     descriptions, toPost, postFailed>>
  BY DEF FlushMemo, Rendering, launchVars, updaterVars, flushVars
<1>s. MemoRendered /\ DescriptionsRendered /\ toPost = postServices
  BY <1>f, <1>t DEF PublishInv, StageInv
<1> DEFINE update == [r \in Rules |-> IF r \in written THEN sectionText[r] ELSE memo[r]]
<1>1. memo' = memo \/ memo' = update
  BY DEF FlushMemo
<1>2. \A r \in Rules : memo'[r] = memo[r] \/ (r \in written /\ memo'[r] = sectionText[r])
  BY <1>1
<1>3. \A r \in Rules : memo'[r] # NoText =>
        /\ r \in matched' \cap UpdatesAlert
        /\ \A q \in Queries : memo'[r][q] = "success" => evalCtx'[q] = "success"
  <2> SUFFICES ASSUME NEW r \in Rules, memo'[r] # NoText
               PROVE  /\ r \in matched \cap UpdatesAlert
                      /\ \A q \in Queries : memo'[r][q] = "success" => evalCtx[q] = "success"
    BY <1>f
  <2>1. CASE memo'[r] = memo[r]
    BY <2>1, <1>t DEF PublishInv
  <2>2. CASE r \in written /\ memo'[r] = sectionText[r]
    <3>1. r \in matched \cap UpdatesAlert
      BY <2>2, <1>t DEF written, PublishInv
    <3>2. memo'[r] = Render(MemoDeps[r])
      BY <2>2, <3>1, <1>s DEF MemoRendered
    <3> QED
      BY <3>1, <3>2 DEF Render
  <2> QED
    BY <1>2, <2>1, <2>2
<1>4. MemoBeforeAnnotation'
  BY <1>2, <1>f, <1>t DEF PublishInv, MemoBeforeAnnotation, written, TypeOK
<1>5. CASE GiveUp(a, "flush")
  BY <1>3, <1>4, <1>5, <1>f, <1>t, AfterGiveUp DEF PublishInv
<1>6. CASE memo' = update /\ pc' = [pc EXCEPT ![a] = "annotations"]
  <2>1. MemoCurrent'
    <3> SUFFICES ASSUME NEW r \in matched \cap UpdatesAlert
                 PROVE  Renderable(MemoDeps[r]) /\ memo'[r] = Render(MemoDeps[r])
      BY <1>f, <1>t, RenderingFrame DEF MemoCurrent, TypeOK
    <3>1. Renderable(MemoDeps[r]) /\ sectionText[r] = Render(MemoDeps[r])
      BY <1>s DEF MemoRendered
    <3>2. Render(MemoDeps[r]) \in Text
      BY <1>t, RenderIsText
    <3>3. r \in written
      BY <3>1, <3>2, <1>t DEF written, TypeOK
    <3> QED
      BY <3>1, <3>3, <1>6, <1>t DEF TypeOK
  <2>2. DescriptionsRendered'
    BY <1>s, <1>f, <1>t, RenderingFrame DEF DescriptionsRendered, TypeOK
  <2>3. \A b \in Actors : b # a => pc'[b] \notin Rendering
    BY <1>6, <1>f, <1>t, RendererAlone DEF TypeOK
  <2>4. StageInv'
    BY <1>6, <1>s, <1>f, <1>t, <2>1, <2>2, <2>3 DEF StageInv, Rendering, TypeOK
  <2>5. ~Settled'
    BY <1>6, <1>t DEF Settled, Rendering, TypeOK
  <2>6. pc'[Main] = "start" => pc[Main] = "start"
    BY <1>6, <1>t DEF TypeOK, Actors
  <2> QED
    BY <1>3, <1>4, <1>f, <1>t, <2>4, <2>5, <2>6 DEF PublishInv
<1> QED
  BY <1>5, <1>6 DEF FlushMemo

LEMMA PublishPostAnnotation ==
  ASSUME Inv, [Next]_vars, NEW a \in Actors, NEW s \in Services, PostAnnotation(a, s)
  PROVE  PublishInv'
<1> USE ConstantsAssumption, NoTextAssumption
<1>t. TypeOK /\ ControlInv /\ PublishInv
  BY DEF Inv
<1>f. /\ pc[a] = "annotations" /\ pc[a] \in Rendering
      /\ UNCHANGED <<matched, evalCtx, pc, errs, outcome, memo, sectionText, postServices,
                     descriptions>>
      /\ toPost' = toPost \ {s}
  BY DEF PostAnnotation, Rendering, launchVars, updaterVars
<1>s. MemoCurrent /\ DescriptionsRendered
  BY <1>f, <1>t DEF PublishInv, StageInv
<1>1. MemoCurrent'
  BY <1>s, <1>f, <1>t, RenderingFrame DEF MemoCurrent, TypeOK
<1>2. DescriptionsRendered'
  BY <1>s, <1>f, <1>t, RenderingFrame DEF DescriptionsRendered, TypeOK
<1>3. \A x \in postServices \ toPost' :
        postFailed' \/ (x \in annotated' /\ annotation'[x] = descriptions[x])
  <2> SUFFICES ASSUME NEW x \in postServices, x \notin toPost', ~postFailed'
               PROVE  x \in annotated' /\ annotation'[x] = descriptions[x]
    OBVIOUS
  <2>1. /\ annotated' = annotated \cup {s}
        /\ annotation' = [annotation EXCEPT ![s] = descriptions[s]]
        /\ ~postFailed
    BY <1>t DEF PostAnnotation, TypeOK
  <2>2. CASE x = s
    BY <2>1, <2>2, <1>t DEF TypeOK
  <2>3. CASE x # s
    BY <2>1, <2>3, <1>f, <1>t DEF PublishInv, StageInv, TypeOK
  <2> QED
    BY <2>2, <2>3
<1>4. \A b \in Actors : pc[b] \in {"memo", "annotations"} => b = a
  BY <1>f, <1>t, RendererAlone DEF Rendering
<1>5. StageInv'
  BY <1>1, <1>2, <1>3, <1>4, <1>f DEF StageInv
<1>6. ~Settled'
  BY <1>f DEF Settled
<1>7. MemoBeforeAnnotation'
  <2>1. \A r \in matched \cap UpdatesAlert : memo[r] \in Text
    BY <1>s, <1>t, RenderIsText DEF MemoCurrent
  <2> QED
    BY <2>1, <1>f DEF MemoBeforeAnnotation
<1>8. pc[Main] # "start"
  BY <1>f DEF Inv, LaunchInv, dependsOnQueries, Actors
<1> QED
  BY <1>5, <1>6, <1>7, <1>8, <1>f, <1>t DEF PublishInv

LEMMA PublishEndFlush ==
  ASSUME Inv, [Next]_vars, NEW a \in Actors, EndFlush(a)
  PROVE  PublishInv'
<1> USE ConstantsAssumption
<1>t. TypeOK /\ ControlInv /\ PublishInv
  BY DEF Inv
<1>f. /\ pc[a] = "annotations" /\ pc[a] \in Rendering /\ toPost = {}
      /\ UNCHANGED <<matched, evalCtx, memo, annotated, annotation, sectionText, postServices,
                     descriptions>>
  BY DEF EndFlush, Rendering, launchVars, updaterVars, mackerelVars
<1>1. MemoBeforeAnnotation'
  BY <1>f, <1>t DEF PublishInv, MemoBeforeAnnotation
<1>2. CASE GiveUp(a, "flush")
  BY <1>1, <1>2, <1>f, <1>t, AfterGiveUp DEF PublishInv
<1>3. CASE ~postFailed /\ Complete(a)
  <2>s. /\ MemoCurrent /\ DescriptionsRendered
        /\ \A s \in postServices : s \in annotated /\ annotation[s] = descriptions[s]
    BY <1>f, <1>3, <1>t DEF PublishInv, StageInv
  <2>1. MemoCurrent'
    BY <2>s, <1>f, <1>t, RenderingFrame DEF MemoCurrent, TypeOK
  <2>2. AnnotationsCurrent
    BY <2>s DEF DescriptionsRendered, AnnotationsCurrent
  <2>3. AnnotationsCurrent'
    BY <2>2, <1>f, <1>t, RenderingFrame DEF AnnotationsCurrent, TypeOK
  <2>4. \A b \in Actors : pc'[b] \notin Rendering
    BY <1>3, <1>f, <1>t, RendererAlone DEF Complete, TypeOK, Rendering
  <2>5. StageInv'
    BY <2>4 DEF StageInv, Rendering
  <2>6. pc'[Main] = "start" => pc[Main] = "start"
    BY <1>3, <1>t DEF Complete, TypeOK, Actors
  <2> QED
    BY <2>1, <2>3, <2>5, <2>6, <1>1, <1>f, <1>t DEF PublishInv
<1> QED
  BY <1>2, <1>3 DEF EndFlush

LEMMA PublishStep ==
  ASSUME Inv, [Next]_vars
  PROVE  PublishInv'
<1>1. CASE UNCHANGED vars
  BY <1>1, PublishFrame DEF vars, Inv, updaterVars, flushVars, mackerelVars, Settled
<1> QED
  BY <1>1, PublishMain, PublishQuery, PublishRunRules, PublishFlushMemo, PublishPostAnnotation,
     PublishEndFlush DEF Next, ExecuteRule, Finished

-----------------------------------------------------------------------------
(* The theorems.                                                             *)

\* The conjunction of the parts is inductive.
THEOREM Invariance == Spec => []Inv
<1>1. Init => Inv
  <2> SUFFICES ASSUME Init PROVE Inv
    OBVIOUS
  <2>1. TypeOK
    BY ConstantsAssumption DEF Init, TypeOK, Actors, Status
  <2>2. ControlInv
    BY ConstantsAssumption DEF Init, ControlInv, Actors, Rendering, AllJoined
  <2>3. LaunchInv
    BY ConstantsAssumption DEF Init, LaunchInv, Actors, dependsOnQueries
  <2>4. SettleInv
    BY ConstantsAssumption DEF Init, SettleInv, Actors, Rendering
  <2>5. PublishInv
    BY ConstantsAssumption DEF Init, PublishInv, StageInv, Settled, MemoBeforeAnnotation, Actors
  <2> QED
    BY <2>1, <2>2, <2>3, <2>4, <2>5 DEF Inv
<1>2. TypeOK /\ Inv /\ [Next]_vars /\ TypeOK' => Inv'
  BY ControlStep, LaunchStep, SettleStep, PublishStep DEF Inv
<1> QED
  BY <1>1, <1>2, Typing, PTL DEF Spec

\* The updater and the shared evaluation context are never used by two
\* goroutines at once, however many queries there are.
THEOREM RenderersExclude == Spec => []OneRenderer
<1>1. Inv => OneRenderer
  BY RendererAlone, ConstantsAssumption DEF Inv, OneRenderer, ControlInv, Actors, TypeOK
<1> QED
  BY <1>1, Invariance, PTL

\* nil is returned only for queries that were all configured and all succeeded,
\* in spite of the append outside mu.
THEOREM NothingSwallowed == Spec => []NoFailureIsSwallowed
<1>1. Inv => NoFailureIsSwallowed
  <2> SUFFICES ASSUME Inv, outcome = "ok", NEW q \in dependsOnQueries
               PROVE  q \in Configured /\ result[q] = "ok"
    BY DEF NoFailureIsSwallowed
  <2>1. q \in Queries
    BY ConstantsAssumption DEF Inv, TypeOK, dependsOnQueries, DependsOn
  <2>2. pc[Main] = "done" /\ errs = {} /\ AllJoined
    BY DEF Inv, ControlInv
  <2>3. pc[q] # "idle"
    BY <2>2 DEF Inv, LaunchInv
  <2>4. pc[q] = "done"
    BY <2>1, <2>2, <2>3 DEF AllJoined
  <2> QED
    BY <2>1, <2>2, <2>3, <2>4 DEF Inv, LaunchInv, SettleInv
<1> QED
  BY <1>1, Invariance, PTL

\* What ExecuteRules leaves behind when it returns nil: every section and every
\* annotation it owed, rendered from successful queries only.
THEOREM SuccessIsComplete == Spec => []OkMeansComplete
<1>1. Inv => OkMeansComplete
  <2> SUFFICES ASSUME Inv, outcome = "ok" PROVE OkMeansComplete
    BY DEF OkMeansComplete
  <2> USE ConstantsAssumption
  <2>1. pc[Main] = "done" /\ errs = {} /\ AllJoined
    BY DEF Inv, ControlInv
  <2>2. \A q \in dependsOnQueries : evalCtx[q] = "success"
    <3> SUFFICES ASSUME NEW q \in dependsOnQueries PROVE evalCtx[q] = "success"
      OBVIOUS
    <3>1. q \in Queries
      BY DEF Inv, TypeOK, dependsOnQueries, DependsOn
    <3>2. pc[q] # "idle"
      BY <2>1 DEF Inv, LaunchInv
    <3>3. pc[q] = "done"
      BY <3>1, <3>2, <2>1 DEF AllJoined
    <3> QED
      BY <3>1, <3>3, <2>1 DEF Inv, SettleInv
  <2>3. MemoCurrent /\ AnnotationsCurrent
    <3>1. Settled
      BY <2>1 DEF Settled, AllJoined, Rendering, Actors
    <3> QED
      BY <3>1 DEF Inv, PublishInv
  <2>4. ASSUME NEW r \in matched \cap UpdatesAlert
        PROVE  memo[r] # NoText /\ \A q \in MemoDeps[r] : memo[r][q] = "success"
    <3>1. memo[r] = Render(MemoDeps[r]) /\ memo[r] # NoText
      BY <2>3, RenderIsText, NoTextAssumption DEF MemoCurrent, Inv
    <3>2. MemoDeps[r] \subseteq dependsOnQueries /\ MemoDeps[r] \subseteq Queries
      BY DEF dependsOnQueries, DependsOn, Inv, TypeOK
    <3> QED
      BY <3>1, <3>2, <2>2 DEF Render
  <2>5. ASSUME NEW r \in matched \cap Describes
        PROVE  \E t \in Text : /\ <<r, t>> \in annotation[ServiceOf[r]]
                               /\ \A q \in DescDeps[r] : t[q] = "success"
    <3>1. <<r, Render(DescDeps[r])>> \in annotation[ServiceOf[r]] /\ Render(DescDeps[r]) \in Text
      BY <2>3, RenderIsText DEF AnnotationsCurrent, Inv
    <3>2. DescDeps[r] \subseteq dependsOnQueries /\ DescDeps[r] \subseteq Queries
      BY DEF dependsOnQueries, DependsOn, Inv, TypeOK
    <3>3. \A q \in DescDeps[r] : Render(DescDeps[r])[q] = "success"
      BY <3>2, <2>2 DEF Render
    <3> QED
      BY <3>1, <3>3
  <2> QED
    BY <2>3, <2>4, <2>5 DEF OkMeansComplete, AnnotationsCurrent
<1> QED
  BY <1>1, Invariance, PTL

\* No annotation is posted before the sections of the same alert.
THEOREM AnnotationsFollowMemo == Spec => []MemoBeforeAnnotation
<1>1. Inv => MemoBeforeAnnotation
  BY DEF Inv, PublishInv
<1> QED
  BY <1>1, Invariance, PTL

\* No goroutine reverts what another one entered in the context.
THEOREM ContextSettles == Spec => SettledStays
<1>1. Inv /\ [Next]_vars =>
        [\A q \in Queries : evalCtx[q] \in {"success", "failed"} => evalCtx'[q] = evalCtx[q]]_vars
  <2> SUFFICES ASSUME Inv, Next, NEW q \in Queries, evalCtx[q] \in {"success", "failed"}
               PROVE  evalCtx'[q] = evalCtx[q]
    OBVIOUS
  <2>1. pc[q] \in Rendering \cup {"done"} /\ q \notin toLaunch
    BY DEF Inv, ControlInv, SettleInv, LaunchInv
  <2>2. ASSUME NEW p \in Queries, Launch(p) \/ SettleFailure(p) \/ SettleSuccess(p)
        PROVE  evalCtx'[q] = evalCtx[q]
    BY <2>1, <2>2 DEF Launch, SettleFailure, SettleSuccess, Inv, TypeOK, Rendering
  <2> QED
    BY <2>2 DEF Next, MainStep, QueryStep, ExecuteRule, Finished, Begin, LaunchMissing,
       AppendMissing, LaunchDone, Join, Return, RunRules, FlushMemo, PostAnnotation, EndFlush, vars
<1> QED
  BY <1>1, Invariance, PTL DEF Spec, SettledStays

-----------------------------------------------------------------------------
(* The refinement of Report.                                                 *)

\* Nothing is shown that is not needed.
LEMMA ShownIsNeeded ==
  Inv => ShownFacts \subseteq NeededFacts
<1> SUFFICES ASSUME Inv PROVE ShownFacts \subseteq NeededFacts
  OBVIOUS
<1>1. \A r \in Rules : memo[r] # NoText => r \in matched \cap UpdatesAlert /\ pc[Main] # "start"
  BY DEF Inv, PublishInv, LaunchInv
<1> QED
  BY <1>1 DEF ShownFacts, NeededFacts, MemoFacts

\* Once ExecuteRules returned nil everything needed is shown.
LEMMA AllShown ==
  ASSUME OkMeansComplete', outcome' = "ok"
  PROVE  NeededFacts' \subseteq ShownFacts'
BY DEF OkMeansComplete, NeededFacts, ShownFacts, MemoFacts

\* While somebody renders, ExecuteRules has not returned.
LEMMA RenderingIsEarly ==
  ASSUME Inv, NEW a \in Actors, pc[a] \in Rendering
  PROVE  outcome = "none" /\ pc[Main] # "start"
<1>1. CASE a = Main
  BY <1>1 DEF Inv, ControlInv, Rendering
<1>2. CASE a \in Queries
  BY <1>2 DEF Inv, ControlInv, LaunchInv, AllJoined, dependsOnQueries, Rendering
<1> QED
  BY <1>1, <1>2 DEF Actors

\* A step that leaves the memo and the rules alone is a stutter, or the end.
LEMMA RefineFrame ==
  ASSUME Inv, Inv', OkMeansComplete', UNCHANGED <<memo, matched>>,
         pc'[Main] = "start" <=> pc[Main] = "start",
         outcome' = outcome \/ outcome = "none"
  PROVE  [Abstract!Next]_Abstract!vars
<1>1. NeededFacts' = NeededFacts /\ ShownFacts' = ShownFacts
  BY DEF NeededFacts, ShownFacts
<1>2. CASE outcome' = outcome
  BY <1>1, <1>2 DEF Abstract!vars
<1>3. CASE outcome = "none" /\ outcome' = "ok"
  <2>1. NeededFacts' \subseteq ShownFacts' /\ ShownFacts \subseteq NeededFacts
    BY <1>3, AllShown, ShownIsNeeded
  <2> QED
    BY <1>1, <1>3, <2>1 DEF Abstract!Next, Abstract!Succeed
<1>4. CASE outcome = "none" /\ outcome' = "error"
  BY <1>1, <1>4, ShownIsNeeded DEF Abstract!Next, Abstract!Fail
<1> QED
  BY <1>2, <1>3, <1>4 DEF Inv, TypeOK

LEMMA RefineBegin ==
  ASSUME Inv, Inv', Begin
  PROVE  [Abstract!Next]_Abstract!vars
<1>1. ShownFacts = {} /\ ShownFacts' = {}
  BY DEF Inv, LaunchInv, PublishInv, Begin, ShownFacts, MemoFacts, mackerelVars
<1>2. NeededFacts = {} /\ NeededFacts' \subseteq MemoFacts /\ outcome = "none"
  BY DEF Inv, ControlInv, Begin, NeededFacts
<1>3. CASE UNCHANGED outcome
  BY <1>1, <1>2, <1>3 DEF Abstract!Next, Abstract!Start
<1>4. CASE outcome' = "error" /\ UNCHANGED <<matched, toLaunch>>
  <2>1. NeededFacts' = {}
    BY <1>4 DEF Begin, Inv, LaunchInv, NeededFacts
  <2> QED
    BY <1>1, <1>2, <1>4, <2>1 DEF Abstract!Next, Abstract!Fail
<1> QED
  BY <1>3, <1>4 DEF Begin

LEMMA RefineFlush ==
  ASSUME Inv, Inv', NEW a \in Actors, FlushMemo(a)
  PROVE  [Abstract!Next]_Abstract!vars
<1>1. /\ pc[a] = "memo" /\ outcome = "none" /\ pc[Main] # "start" /\ matched' = matched
      /\ outcome' \in {"none", "error"}
  BY RenderingIsEarly DEF FlushMemo, GiveUp, Rendering, launchVars
<1>2. pc'[Main] # "start"
  BY <1>1 DEF FlushMemo, GiveUp, Inv, TypeOK, Actors
<1>3. NeededFacts' = NeededFacts
  BY <1>1, <1>2 DEF NeededFacts
<1>4. ShownFacts' \subseteq NeededFacts
  <2>1. (Inv => ShownFacts \subseteq NeededFacts)'
    BY ShownIsNeeded, PTL
  <2> QED
    BY <2>1, <1>3
<1>5. ASSUME NEW r \in Rules, memo[r] # NoText
      PROVE  /\ memo'[r] # NoText
             /\ \A q \in Queries : q \in MemoDeps[r] /\ memo[r][q] = "success" => memo'[r][q] = "success"
  <2>1. CASE memo'[r] = memo[r]
    BY <1>5, <2>1
  <2>2. CASE r \in written /\ memo'[r] = sectionText[r]
    <3>1. memo'[r] = Render(MemoDeps[r]) /\ memo'[r] # NoText
      BY <1>1, <2>2 DEF Inv, PublishInv, StageInv, MemoRendered, written
    <3>2. \A q \in Queries : memo[r][q] = "success" => evalCtx[q] = "success"
      BY <1>5 DEF Inv, PublishInv
    <3> QED
      BY <3>1, <3>2 DEF Render
  <2> QED
    BY <2>1, <2>2 DEF FlushMemo
<1>6. ShownFacts \subseteq ShownFacts'
  <2> SUFFICES ASSUME NEW f \in ShownFacts PROVE f \in ShownFacts'
    OBVIOUS
  <2>1. f \in MemoFacts /\ f[1] \in Rules /\ memo[f[1]] # NoText
    BY DEF ShownFacts, MemoFacts
  <2>2. MemoDeps[f[1]] \subseteq Queries
    BY <2>1, ConstantsAssumption
  <2> QED
    BY <1>5, <2>1, <2>2 DEF ShownFacts
<1>7. CASE outcome' = "none"
  BY <1>1, <1>3, <1>4, <1>6, <1>7 DEF Abstract!Next, Abstract!Publish
<1>8. CASE outcome' = "error"
  BY <1>1, <1>3, <1>4, <1>6, <1>8 DEF Abstract!Next, Abstract!Fail
<1> QED
  BY <1>1, <1>7, <1>8

\* ExecuteRules implements Report: the memo never takes back a result it has
\* shown, and nil is returned only when everything is shown.
THEOREM ImplementsReport == Spec => MemoOnlyGrows
<1>1. Init => Abstract!Init
  BY DEF Init, Abstract!Init, NeededFacts, ShownFacts, MemoFacts
<1>2. Inv /\ Inv' /\ OkMeansComplete' /\ [Next]_vars => [Abstract!Next]_Abstract!vars
  <2> SUFFICES ASSUME Inv, Inv', OkMeansComplete', [Next]_vars
               PROVE  [Abstract!Next]_Abstract!vars
    OBVIOUS
  <2> USE ConstantsAssumption
  <2>t. TypeOK /\ ControlInv /\ LaunchInv
    BY DEF Inv
  <2>1. CASE Begin
    BY <2>1, RefineBegin
  <2>2. ASSUME NEW q \in Queries, Launch(q) PROVE [Abstract!Next]_Abstract!vars
    BY <2>2, <2>t, RefineFrame DEF Launch, TypeOK, Actors, mackerelVars
  <2>3. ASSUME NEW q \in Queries, LaunchMissing(q) PROVE [Abstract!Next]_Abstract!vars
    BY <2>3, <2>t, RefineFrame DEF LaunchMissing, TypeOK, Actors, mackerelVars
  <2>4. CASE AppendMissing
    BY <2>4, <2>t, RefineFrame DEF AppendMissing, TypeOK, Actors, mackerelVars, launchVars
  <2>5. CASE LaunchDone
    BY <2>5, <2>t, RefineFrame DEF LaunchDone, TypeOK, Actors, mackerelVars, launchVars
  <2>6. CASE Join
    BY <2>6, <2>t, RefineFrame DEF Join, TypeOK, ControlInv, Actors, mackerelVars, launchVars
  <2>7. ASSUME NEW q \in Queries, QueryStep(q) PROVE [Abstract!Next]_Abstract!vars
    BY <2>7, <2>t, RefineFrame DEF QueryStep, Return, SettleFailure, SettleSuccess, TypeOK,
       Actors, mackerelVars, launchVars
  <2>8. ASSUME NEW a \in Actors, RunRules(a) \/ EndFlush(a) PROVE [Abstract!Next]_Abstract!vars
    <3>1. outcome = "none" /\ pc[Main] # "start"
      BY <2>8, RenderingIsEarly DEF RunRules, EndFlush, Rendering
    <3>2. pc'[Main] # "start" /\ UNCHANGED <<memo, matched>>
      BY <2>8, <2>t, <3>1 DEF RunRules, EndFlush, GiveUp, Complete, TypeOK, Actors, mackerelVars,
         launchVars
    <3> QED
      BY <3>1, <3>2, RefineFrame
  <2>9. ASSUME NEW a \in Actors, FlushMemo(a) PROVE [Abstract!Next]_Abstract!vars
    BY <2>9, RefineFlush
  <2>10. ASSUME NEW a \in Actors, NEW s \in Services, PostAnnotation(a, s)
         PROVE  [Abstract!Next]_Abstract!vars
    BY <2>10, RefineFrame DEF PostAnnotation, launchVars
  <2>11. CASE UNCHANGED vars
    BY <2>11, RefineFrame DEF vars
  <2> QED
    BY <2>1, <2>2, <2>3, <2>4, <2>5, <2>6, <2>7, <2>8, <2>9, <2>10, <2>11
       DEF Next, MainStep, ExecuteRule, Finished
<1> QED
  BY <1>1, <1>2, Invariance, SuccessIsComplete, PTL DEF Spec, MemoOnlyGrows, Abstract!Spec

=============================================================================
