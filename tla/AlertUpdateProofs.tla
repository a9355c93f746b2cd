------------------------- MODULE AlertUpdateProofs -------------------------
(***************************************************************************)
(* Theorems about AlertUpdate.  The types, and that the cache is in step,     *)
(* hold under any concurrency; what is said of sections, annotations and      *)
(* acknowledged texts holds for executions one after the other, which is what *)
(* Sequential states, for any number of webhooks, deliveries and flushes.     *)
(***************************************************************************)
EXTENDS AlertUpdate, SequenceTheorems, FiniteSetTheorems, TLAPS

Sequential == Parallel = 1

OneProcess == \A p, q \in Processes : p = q

-----------------------------------------------------------------------------
(* Types.                                                                   *)

LEMMA EmptyMemoType == EmptyMemo \in Memo
BY DEF EmptyMemo, Memo

LEMMA EndFlushTypes ==
  ASSUME TypeOK, NEW h \in Handlers, NEW ok \in BOOLEAN, EndFlush(h, ok)
  PROVE  /\ pc' \in [Handlers -> Stages \cup {"queued", "acked"}]
         /\ proc' \in [Handlers -> Processes \cup {NoProcess}]
         /\ shared' \in [Handlers -> BOOLEAN]
         /\ flushes' \in [Handlers -> 0 .. MaxFlush]
         /\ failed' \in [Handlers -> BOOLEAN]
         /\ tries' \in [Handlers -> 0 .. MaxTries]
<1>1. failed' \in [Handlers -> BOOLEAN] /\ shared' \in [Handlers -> BOOLEAN]
  BY DEF TypeOK, EndFlush
<1>2. tries' \in [Handlers -> 0 .. MaxTries]
  BY DEF TypeOK, EndFlush
<1>3. flushes' \in [Handlers -> 0 .. MaxFlush]
  BY ConstantsAssumption DEF TypeOK, EndFlush
<1>4. /\ pc' \in [Handlers -> Stages \cup {"queued", "acked"}]
      /\ proc' \in [Handlers -> Processes \cup {NoProcess}]
  BY DEF TypeOK, EndFlush, Stages
<1> QED
  BY <1>1, <1>2, <1>3, <1>4

LEMMA ComposedType ==
  ASSUME TypeOK, NEW h \in Handlers, Compose(h)
  PROVE  text' \in [Handlers -> Memo]
<1> DEFINE old == base[h].sections
           mine == [r \in Rules |-> IF r = RuleOf[h] THEN flushes[h] ELSE 0]
           merged == [old[1] EXCEPT ![RuleOf[h]] = flushes[h]]
           replaced == [i \in DOMAIN old |-> IF old[i] = old[1] THEN merged ELSE old[i]]
<1>1. old \in Seq(Section) /\ alert[h] \in Memo /\ base[h] \in Memo
  BY DEF TypeOK, Memo
<1>2. flushes[h] \in 0 .. MaxFlush /\ RuleOf[h] \in Rules
  BY ConstantsAssumption DEF TypeOK
<1>3. mine \in Section
  BY <1>2, ConstantsAssumption DEF Section
<1>4. [alert[h] EXCEPT !.sections = Append(@, mine)] \in Memo
  <2>1. alert[h].sections \in Seq(Section) /\ alert[h].notes \in SUBSET Notes
    BY <1>1 DEF Memo
  <2>2. Append(alert[h].sections, mine) \in Seq(Section)
    BY <1>3, <2>1
  <2> HIDE DEF mine
  <2> QED
    BY <1>1, <2>1, <2>2 DEF Memo
<1>5. ASSUME old # <<>>
      PROVE  [base[h] EXCEPT !.sections = replaced] \in Memo
  <2>1. old[1] \in Section
    BY <1>1, <1>5
  <2>2. merged \in Section
    BY <1>2, <2>1 DEF Section
  <2>3. DOMAIN old = 1 .. Len(old) /\ Len(old) \in Nat
    BY <1>1
  <2>4. replaced \in [1 .. Len(old) -> Section]
    <3> HIDE DEF merged
    <3> QED
      BY <1>1, <2>2, <2>3
  <2>5. replaced \in Seq(Section)
    <3> HIDE DEF replaced
    <3> QED
      BY <2>3, <2>4, SeqDef
  <2> HIDE DEF replaced
  <2> QED
    BY <1>1, <2>5 DEF Memo
<1>6. text' = [text EXCEPT ![h] =
                 IF old = <<>> THEN [alert[h] EXCEPT !.sections = Append(@, mine)]
                 ELSE [base[h] EXCEPT !.sections = replaced]]
  BY DEF Compose
<1> HIDE DEF old, mine, replaced
<1> QED
  BY <1>4, <1>5, <1>6 DEF TypeOK

LEMMA ReadTypes ==
  ASSUME TypeOK, NEW h \in Handlers, Read(h), proc[h] \in Processes
  PROVE  TypeOK'
<1> DEFINE got == IF cached[proc[h]] # NoMemo /\ fresh[proc[h]] THEN cached[proc[h]] ELSE memo
<1>1. got \in Memo
  BY DEF TypeOK
<1>2. /\ cached' = [cached EXCEPT ![proc[h]] = got]
      /\ alert' = [alert EXCEPT ![h] = got]
      /\ base' = [base EXCEPT ![h] = got]
  BY DEF Read
<1>3. shared' \in [Handlers -> BOOLEAN]
  BY DEF Read
<1> HIDE DEF got
<1>4. /\ cached' \in [Processes -> Memo \cup {NoMemo}]
      /\ alert' \in [Handlers -> Memo]
      /\ base' \in [Handlers -> Memo]
  BY <1>1, <1>2 DEF TypeOK
<1> QED
  BY <1>3, <1>4 DEF TypeOK, Read, deliveryVars, Stages

\* A handler that is in a flush is in a process.
Placed == \A h \in Handlers : pc[h] \in Stages => proc[h] \in Processes

LEMMA TypeKeeps == TypeOK /\ Placed /\ [Next]_vars => TypeOK'
<1> SUFFICES ASSUME TypeOK, Placed, [Next]_vars PROVE TypeOK'
  OBVIOUS
<1>1. ASSUME NEW h \in Handlers, NEW p \in Processes, Receive(h, p)
      PROVE  TypeOK'
  BY <1>1, ConstantsAssumption DEF TypeOK, Receive, Stages
<1>2. ASSUME NEW h \in Handlers, FlushStep(h)
      PROVE  TypeOK'
  <2>1. CASE Read(h)
    BY <2>1, ReadTypes DEF Placed, Read, Stages
  <2>2. CASE ReadFails(h)
    BY <2>2, EndFlushTypes DEF TypeOK, ReadFails
  <2>3. CASE Compose(h)
    BY <2>3, ComposedType DEF TypeOK, Compose, deliveryVars, Stages
  <2>4. CASE UploadFails(h)
    BY <2>4, EndFlushTypes DEF TypeOK, UploadFails
  <2>5. CASE Update(h)
    <3>1. text[h] \in Memo
      BY DEF TypeOK
    <3>2. cached' \in [Processes -> Memo \cup {NoMemo}] /\ alert' \in [Handlers -> Memo]
      BY <2>5, <3>1 DEF TypeOK, Update
    <3> QED
      BY <2>5, <3>1, <3>2 DEF TypeOK, Update, deliveryVars, Stages
  <2>6. CASE UpdateFails(h)
    <3>1. memo' \in Memo
      BY <2>6 DEF TypeOK, UpdateFails
    <3> QED
      BY <2>6, <3>1, EndFlushTypes DEF TypeOK, UpdateFails
  <2>7. CASE Find(h)
    BY <2>7 DEF TypeOK, Find, deliveryVars, Stages
  <2>8. CASE FindFails(h)
    BY <2>8, EndFlushTypes DEF TypeOK, FindFails
  <2>9. CASE Post(h)
    <3>1. annotations' \in Nat
      BY <2>9 DEF TypeOK, Post
    <3> QED
      BY <2>9, <3>1, EndFlushTypes DEF TypeOK, Post
  <2>10. CASE PostFails(h)
    <3>1. annotations' \in Nat
      BY <2>10 DEF TypeOK, PostFails
    <3> QED
      BY <2>10, <3>1, EndFlushTypes DEF TypeOK, PostFails
  <2> QED
    BY <1>2, <2>1, <2>2, <2>3, <2>4, <2>5, <2>6, <2>7, <2>8, <2>9, <2>10 DEF FlushStep
<1>3. ASSUME NEW p \in Processes, Crash(p)
      PROVE  TypeOK'
  BY <1>3 DEF TypeOK, Crash
<1>4. ASSUME NEW p \in Processes, Expire(p)
      PROVE  TypeOK'
  BY <1>4 DEF TypeOK, Expire, deliveryVars
<1>5. ASSUME NEW n \in Notes, AddNote(n)
      PROVE  TypeOK'
  <2>1. memo' \in Memo
    BY <1>5 DEF TypeOK, AddNote, Memo
  <2> QED
    BY <1>5, <2>1 DEF TypeOK, AddNote
<1>6. CASE UNCHANGED vars
  BY <1>6 DEF TypeOK, vars
<1> QED
  BY <1>1, <1>2, <1>3, <1>4, <1>5, <1>6 DEF Next, Quiet

\* A flush moves its own handler only, and within the process.
LEMMA FlushFrame ==
  ASSUME TypeOK, NEW h \in Handlers, FlushStep(h)
  PROVE  /\ pc[h] \in Stages
         /\ \A g \in Handlers \ {h} :
              pc'[g] = pc[g] /\ proc'[g] = proc[g] /\ flushes'[g] = flushes[g]
         /\ pc'[h] \in Stages => proc'[h] = proc[h]
<1>1. ASSUME NEW ok \in BOOLEAN, EndFlush(h, ok)
      PROVE  /\ \A g \in Handlers \ {h} :
                  pc'[g] = pc[g] /\ proc'[g] = proc[g] /\ flushes'[g] = flushes[g]
             /\ pc'[h] \in Stages => proc'[h] = proc[h]
  BY <1>1 DEF EndFlush, TypeOK, Stages
<1>2. CASE Read(h) \/ Compose(h) \/ Update(h) \/ Find(h)
  BY <1>2 DEF TypeOK, Read, Compose, Update, Find, Stages, deliveryVars
<1>3. CASE ReadFails(h) \/ UploadFails(h) \/ UpdateFails(h) \/ FindFails(h) \/ Post(h) \/ PostFails(h)
  BY <1>1, <1>3 DEF ReadFails, UploadFails, UpdateFails, FindFails, Post, PostFails, Stages
<1> QED
  BY <1>2, <1>3 DEF FlushStep

LEMMA PlacedKeeps == TypeOK /\ Placed /\ [Next]_vars => Placed'
<1> SUFFICES ASSUME TypeOK, Placed, [Next]_vars PROVE Placed'
  OBVIOUS
<1>1. ASSUME NEW h \in Handlers, NEW p \in Processes, Receive(h, p)
      PROVE  Placed'
  BY <1>1 DEF TypeOK, Placed, Receive
<1>2. ASSUME NEW h \in Handlers, FlushStep(h)
      PROVE  Placed'
  BY <1>2, FlushFrame DEF Placed
<1>3. ASSUME NEW p \in Processes, Crash(p)
      PROVE  Placed'
  BY <1>3 DEF Placed, Crash, Stages
<1>4. ASSUME NEW p \in Processes, Expire(p)
      PROVE  Placed'
  BY <1>4 DEF Placed, Expire, deliveryVars
<1>5. ASSUME NEW n \in Notes, AddNote(n)
      PROVE  Placed'
  BY <1>5 DEF Placed, AddNote
<1>6. CASE UNCHANGED vars
  BY <1>6 DEF Placed, vars
<1> QED
  BY <1>1, <1>2, <1>3, <1>4, <1>5, <1>6 DEF Next, Quiet

LEMMA TypedAndPlaced == Spec => [](TypeOK /\ Placed)
<1>1. Init => TypeOK /\ Placed
  BY EmptyMemoType, ConstantsAssumption DEF Init, TypeOK, Placed, Stages
<1> QED
  BY <1>1, TypeKeeps, PlacedKeeps, PTL DEF Spec

\* The types hold for any handlers, processes and bounds.
THEOREM Typing == Spec => []TypeOK
BY TypedAndPlaced, PTL

-----------------------------------------------------------------------------
(* The cache.                                                               *)

\* Nobody but this process writes the memo, and it learns what it wrote.
Alone == OneProcess /\ Notes = {} /\ ~LostAnswers

LEMMA CacheKeeps ==
  Alone /\ TypeOK /\ Placed /\ CacheIsCurrent /\ [Next]_vars => CacheIsCurrent'
<1> SUFFICES ASSUME Alone, TypeOK, Placed, CacheIsCurrent, [Next]_vars
             PROVE  CacheIsCurrent'
  OBVIOUS
<1>1. ASSUME NEW h \in Handlers, Read(h)
      PROVE  CacheIsCurrent'
  BY <1>1 DEF CacheIsCurrent, Read, TypeOK
<1>2. ASSUME NEW h \in Handlers, Update(h)
      PROVE  CacheIsCurrent'
  <2>1. \A p \in Processes : p = proc[h]
    BY <1>2 DEF Placed, Update, Stages, Alone, OneProcess
  <2> QED
    BY <1>2, <2>1 DEF CacheIsCurrent, Update, TypeOK
<1>3. ASSUME NEW h \in Handlers, UpdateFails(h)
      PROVE  CacheIsCurrent'
  BY <1>3 DEF CacheIsCurrent, UpdateFails, Alone
<1>4. ASSUME NEW p \in Processes, Crash(p)
      PROVE  CacheIsCurrent'
  BY <1>4 DEF CacheIsCurrent, Crash, TypeOK
<1>5. ASSUME UNCHANGED <<memo, cached>>
      PROVE  CacheIsCurrent'
  BY <1>5 DEF CacheIsCurrent
<1> QED
  BY <1>1, <1>2, <1>3, <1>4, <1>5 DEF Next, FlushStep, Quiet, vars, Alone, Receive, ReadFails,
     Compose, UploadFails, Find, FindFails, Post, PostFails, Expire

\* However many handlers of one process read, overwrite and fail at once, what is
\* cached is the memo at Mackerel, if nobody else writes it and no answer is lost.
THEOREM CacheFollows == Alone => (Spec => []CacheIsCurrent)
<1> SUFFICES ASSUME Alone PROVE Spec => []CacheIsCurrent
  OBVIOUS
<1>1. Init => CacheIsCurrent
  BY DEF Init, CacheIsCurrent
<1>2. TypeOK /\ Placed /\ CacheIsCurrent /\ [Next]_vars => CacheIsCurrent'
  BY CacheKeeps
<1> QED
  BY <1>1, <1>2, TypedAndPlaced, PTL DEF Spec

-----------------------------------------------------------------------------
(* One execution after the other.                                           *)

OneActive == \A g, h \in active : g = h

Small(m) == Len(m.sections) <= 1

\* What a flush composes from has a section at most, and did not change meanwhile.
SectionInv ==
  /\ Small(memo)
  /\ \A p \in Processes : cached[p] # NoMemo => Small(cached[p])
  /\ \A h \in Handlers : pc[h] = "compose" => alert[h] = base[h] /\ Small(base[h])
  /\ \A h \in Handlers : pc[h] = "update" => Small(text[h])

AnnotationInv ==
  /\ OneAnnotation
  /\ \A h \in Handlers : pc[h] = "post" /\ ~found[h] => annotations = 0

LEMMA OneActiveKeeps ==
  Sequential /\ TypeOK /\ OneActive /\ [Next]_vars => OneActive'
<1> SUFFICES ASSUME Sequential, TypeOK, OneActive, [Next]_vars PROVE OneActive'
  OBVIOUS
<1>1. ASSUME NEW h \in Handlers, NEW p \in Processes, Receive(h, p)
      PROVE  OneActive'
  <2>1. active = {}
    <3>1. ASSUME NEW g \in active PROVE FALSE
      <4>1. active = {g}
        BY <3>1 DEF OneActive
      <4>2. Cardinality(active) = 1
        BY <4>1, FS_Singleton
      <4> QED
        BY <1>1, <4>2 DEF Receive, Sequential
    <3> QED
      BY <3>1
  <2>2. active' = {h}
    BY <1>1, <2>1 DEF Receive, TypeOK, active, Stages
  <2> QED
    BY <2>2 DEF OneActive
<1>2. ASSUME active' \subseteq active
      PROVE  OneActive'
  BY <1>2 DEF OneActive
<1>3. ASSUME NEW h \in Handlers, FlushStep(h)
      PROVE  active' \subseteq active
  BY <1>3, FlushFrame DEF active
<1>4. ASSUME NEW p \in Processes, Crash(p)
      PROVE  active' \subseteq active
  BY <1>4 DEF Crash, active, Stages
<1>5. ASSUME UNCHANGED pc
      PROVE  active' \subseteq active
  BY <1>5 DEF active
<1> QED
  BY <1>1, <1>2, <1>3, <1>4, <1>5 DEF Next, Quiet, vars, Expire, AddNote

\* The one that takes a step is the only one that is active.
LEMMA OthersRest ==
  ASSUME TypeOK, OneActive, NEW h \in Handlers, FlushStep(h),
         NEW g \in Handlers, g # h
  PROVE  pc[g] \notin Stages /\ pc'[g] \notin Stages /\ pc'[g] = pc[g]
BY FlushFrame DEF OneActive, active

\* What EndFlush leaves of the handler's control.
LEMMA EndFlushControl ==
  ASSUME TypeOK, NEW h \in Handlers, NEW ok \in BOOLEAN, EndFlush(h, ok)
  PROVE  /\ pc'[h] \in {"read", "queued", "acked"}
         /\ pc'[h] = "acked" => ok /\ flushes'[h] = flushes[h]
BY DEF TypeOK, EndFlush

-----------------------------------------------------------------------------
(* Sections.                                                                *)

\* Compose puts one section together, with the text of its rule and what the section
\* it began with has for the others, and leaves the notes alone.
LEMMA ComposeShape ==
  ASSUME TypeOK, SectionInv, NEW h \in Handlers, Compose(h)
  PROVE  \E s \in Section :
           /\ text'[h].sections = <<s>>
           /\ text'[h].notes = base[h].notes
           /\ s[RuleOf[h]] = flushes[h]
           /\ base[h].sections # <<>> =>
                \A r \in Rules \ {RuleOf[h]} : s[r] = base[h].sections[1][r]
<1> DEFINE old == base[h].sections
           mine == [r \in Rules |-> IF r = RuleOf[h] THEN flushes[h] ELSE 0]
           merged == [old[1] EXCEPT ![RuleOf[h]] = flushes[h]]
           replaced == [i \in DOMAIN old |-> IF old[i] = old[1] THEN merged ELSE old[i]]
<1>1. /\ old \in Seq(Section) /\ Len(old) <= 1
      /\ alert[h] = base[h] /\ base[h] \in Memo /\ text \in [Handlers -> Memo]
  BY DEF TypeOK, Memo, SectionInv, Small, Compose
<1>2. flushes[h] \in 0 .. MaxFlush /\ RuleOf[h] \in Rules
  BY ConstantsAssumption DEF TypeOK
<1>3. CASE old = <<>>
  <2>1. text'[h] = [alert[h] EXCEPT !.sections = Append(@, mine)]
    BY <1>1, <1>3 DEF Compose
  <2>2. mine \in Section /\ mine[RuleOf[h]] = flushes[h]
    BY <1>2, ConstantsAssumption DEF Section
  <2> HIDE DEF mine
  <2>3. text'[h].sections = <<mine>> /\ text'[h].notes = base[h].notes
    <3>1. /\ text'[h].sections = Append(alert[h].sections, mine)
          /\ text'[h].notes = alert[h].notes
      BY <1>1, <2>1 DEF Memo
    <3>2. Append(<<>>, mine) = <<mine>>
      OBVIOUS
    <3> QED
      BY <1>1, <1>3, <3>1, <3>2
  <2> QED
    BY <1>3, <2>2, <2>3
<1>4. CASE old # <<>>
  <2>1. text'[h] = [base[h] EXCEPT !.sections = replaced]
    BY <1>1, <1>4 DEF Compose
  <2>2. text'[h].sections = replaced /\ text'[h].notes = base[h].notes
    <3> HIDE DEF replaced
    <3> QED
      BY <1>1, <2>1 DEF Memo
  <2>3. DOMAIN old = 1 .. 1 /\ old[1] \in Section
    BY <1>1, <1>4
  <2>4. replaced = <<merged>>
    <3> HIDE DEF merged
    <3> QED
      BY <2>3
  <2>5. /\ merged \in Section /\ merged[RuleOf[h]] = flushes[h]
        /\ \A r \in Rules \ {RuleOf[h]} : merged[r] = old[1][r]
    BY <1>2, <2>3 DEF Section
  <2> HIDE DEF merged, replaced
  <2> QED
    BY <2>2, <2>4, <2>5
<1> QED
  BY <1>3, <1>4

LEMMA ComposeSmall ==
  ASSUME TypeOK, SectionInv, NEW h \in Handlers, Compose(h)
  PROVE  Small(text'[h])
<1>1. PICK s \in Section : text'[h].sections = <<s>>
  BY ComposeShape
<1>2. Len(<<s>>) = 1
  OBVIOUS
<1> QED
  BY <1>1, <1>2 DEF Small

LEMMA SectionKeeps ==
  TypeOK /\ Placed /\ OneActive /\ SectionInv /\ [Next]_vars => SectionInv'
<1> SUFFICES ASSUME TypeOK, Placed, OneActive, SectionInv, [Next]_vars PROVE SectionInv'
  OBVIOUS
<1>1. ASSUME NEW h \in Handlers, NEW p \in Processes, Receive(h, p)
      PROVE  SectionInv'
  BY <1>1 DEF SectionInv, Receive, TypeOK, Small
<1>2. ASSUME NEW h \in Handlers, FlushStep(h)
      PROVE  SectionInv'
  <2> USE <1>2
  <2>0. \A g \in Handlers \ {h} : pc'[g] \notin {"compose", "update"}
    BY OthersRest DEF Stages
  <2>1. CASE Read(h)
    <3> DEFINE got == IF cached[proc[h]] # NoMemo /\ fresh[proc[h]]
                        THEN cached[proc[h]] ELSE memo
    <3>1. proc[h] \in Processes
      BY <2>1 DEF Placed, Read, Stages
    <3>2. Small(got)
      BY <3>1 DEF SectionInv, Small
    <3>3. /\ cached' = [cached EXCEPT ![proc[h]] = got]
          /\ alert' = [alert EXCEPT ![h] = got]
          /\ base' = [base EXCEPT ![h] = got]
          /\ pc' = [pc EXCEPT ![h] = "compose"]
          /\ memo' = memo
      BY <2>1 DEF Read
    <3> HIDE DEF got
    <3>4. \A p \in Processes : cached'[p] # NoMemo => Small(cached'[p])
      BY <3>2, <3>3 DEF SectionInv, Small, TypeOK
    <3>5. pc'[h] = "compose" /\ alert'[h] = got /\ base'[h] = got
      BY <3>3 DEF TypeOK
    <3> QED
      BY <2>0, <3>2, <3>3, <3>4, <3>5 DEF SectionInv, Small
  <2>2. CASE Compose(h)
    <3>1. Small(text'[h])
      BY <2>2, ComposeSmall
    <3> QED
      BY <2>0, <2>2, <3>1 DEF SectionInv, Compose, TypeOK, Small
  <2>3. CASE Update(h)
    BY <2>0, <2>3 DEF SectionInv, Update, TypeOK, Small
  <2>4. CASE UpdateFails(h)
    <3>1. Small(memo')
      BY <2>4 DEF SectionInv, UpdateFails
    <3>2. pc'[h] \notin {"compose", "update"}
      BY <2>4, EndFlushControl DEF UpdateFails
    <3> QED
      BY <2>0, <2>4, <3>1, <3>2 DEF SectionInv, UpdateFails, Small
  <2>5. CASE Find(h)
    BY <2>0, <2>5 DEF SectionInv, Find, TypeOK, Small
  <2>6. CASE ReadFails(h) \/ UploadFails(h) \/ FindFails(h) \/ Post(h) \/ PostFails(h)
    <3>1. pc'[h] \notin {"compose", "update"}
      BY <2>6, EndFlushControl DEF ReadFails, UploadFails, FindFails, Post, PostFails
    <3> QED
      BY <2>0, <2>6, <3>1 DEF SectionInv, ReadFails, UploadFails, FindFails, Post, PostFails, Small
  <2> QED
    BY <2>1, <2>2, <2>3, <2>4, <2>5, <2>6 DEF FlushStep
<1>3. ASSUME NEW p \in Processes, Crash(p)
      PROVE  SectionInv'
  BY <1>3 DEF SectionInv, Crash, TypeOK, Small
<1>4. ASSUME NEW p \in Processes, Expire(p)
      PROVE  SectionInv'
  BY <1>4 DEF SectionInv, Expire, Small
<1>5. ASSUME NEW n \in Notes, AddNote(n)
      PROVE  SectionInv'
  <2>1. memo'.sections = memo.sections
    BY <1>5 DEF AddNote, TypeOK, Memo
  <2> QED
    BY <1>5, <2>1 DEF SectionInv, AddNote, Small
<1>6. CASE UNCHANGED vars
  BY <1>6 DEF SectionInv, vars, Small
<1> QED
  BY <1>1, <1>2, <1>3, <1>4, <1>5, <1>6 DEF Next, Quiet

-----------------------------------------------------------------------------
(* Annotations.                                                             *)

LEMMA AnnotationKeeps ==
  TypeOK /\ OneActive /\ AnnotationInv /\ [Next]_vars => AnnotationInv'
<1> SUFFICES ASSUME TypeOK, OneActive, AnnotationInv, [Next]_vars PROVE AnnotationInv'
  OBVIOUS
<1>1. ASSUME NEW h \in Handlers, FlushStep(h)
      PROVE  AnnotationInv'
  <2> USE <1>1
  <2>0. \A g \in Handlers \ {h} : pc'[g] # "post"
    BY OthersRest DEF Stages
  <2>1. CASE Find(h)
    <3>1. found'[h] <=> annotations > 0
      BY <2>1 DEF Find, TypeOK
    <3>2. ~ found'[h] => annotations = 0
      BY <3>1 DEF TypeOK
    <3>3. annotations' = annotations
      BY <2>1 DEF Find
    <3> QED
      BY <2>0, <3>2, <3>3 DEF AnnotationInv, OneAnnotation
  <2>2. CASE Post(h) \/ PostFails(h)
    <3>1. pc'[h] # "post"
      BY <2>2, EndFlushControl DEF Post, PostFails
    <3>2. ASSUME found[h] PROVE annotations' <= 1
      <4>1. annotations' = annotations
        <5>1. CASE Post(h)
          BY <3>2, <5>1 DEF Post
        <5>2. CASE PostFails(h)
          BY <3>2, <5>2 DEF PostFails
        <5> QED
          BY <2>2, <5>1, <5>2
      <4> QED
        BY <4>1 DEF AnnotationInv, OneAnnotation
    <3>3. ASSUME ~ found[h] PROVE annotations' <= 1
      <4>1. annotations = 0
        BY <2>2, <3>3 DEF AnnotationInv, Post, PostFails
      <4>2. annotations' \in {0, 1}
        <5>1. annotations + 1 = 1
          BY <4>1
        <5>2. CASE Post(h)
          BY <3>3, <4>1, <5>1, <5>2 DEF Post
        <5>3. CASE PostFails(h)
          BY <4>1, <5>1, <5>3 DEF PostFails
        <5> QED
          BY <2>2, <5>2, <5>3
      <4> QED
        BY <4>2
    <3>4. annotations' <= 1
      BY <3>2, <3>3
    <3> QED
      BY <2>0, <3>1, <3>4 DEF AnnotationInv, OneAnnotation
  <2>3. CASE Read(h) \/ Compose(h) \/ Update(h)
    BY <2>0, <2>3 DEF AnnotationInv, OneAnnotation, Read, Compose, Update, TypeOK
  <2>4. CASE ReadFails(h) \/ UploadFails(h) \/ UpdateFails(h) \/ FindFails(h)
    <3>1. pc'[h] # "post"
      BY <2>4, EndFlushControl DEF ReadFails, UploadFails, UpdateFails, FindFails
    <3> QED
      BY <2>0, <2>4, <3>1 DEF AnnotationInv, OneAnnotation, ReadFails, UploadFails,
         UpdateFails, FindFails
  <2> QED
    BY <2>1, <2>2, <2>3, <2>4 DEF FlushStep
<1>2. ASSUME NEW h \in Handlers, NEW p \in Processes, Receive(h, p)
      PROVE  AnnotationInv'
  BY <1>2 DEF AnnotationInv, OneAnnotation, Receive, TypeOK
<1>3. ASSUME NEW p \in Processes, Crash(p)
      PROVE  AnnotationInv'
  BY <1>3 DEF AnnotationInv, OneAnnotation, Crash, TypeOK
<1>4. ASSUME UNCHANGED <<annotations, pc, found>>
      PROVE  AnnotationInv'
  BY <1>4 DEF AnnotationInv, OneAnnotation
<1> QED
  BY <1>1, <1>2, <1>3, <1>4 DEF Next, Quiet, vars, Expire, AddNote

LEMMA SequentialInvariance ==
  Sequential => (Spec => [](TypeOK /\ Placed /\ OneActive /\ SectionInv /\ AnnotationInv))
<1> SUFFICES ASSUME Sequential
             PROVE  Spec => [](TypeOK /\ Placed /\ OneActive /\ SectionInv /\ AnnotationInv)
  OBVIOUS
<1>1. Init => OneActive /\ SectionInv /\ AnnotationInv
  BY DEF Init, OneActive, active, Stages, SectionInv, Small, EmptyMemo, AnnotationInv,
     OneAnnotation
<1>2. TypeOK /\ Placed /\ OneActive /\ SectionInv /\ AnnotationInv /\ [Next]_vars
        => OneActive' /\ SectionInv' /\ AnnotationInv'
  BY OneActiveKeeps, SectionKeeps, AnnotationKeeps
<1> QED
  BY <1>1, <1>2, TypedAndPlaced, PTL DEF Spec

\* Executions one after the other, in whatever processes, keep to one section, with
\* stale caches, crashes, notes and updates whose answer is lost.
THEOREM SectionIsSingle == Sequential => (Spec => []OneSection)
<1>1. SectionInv => OneSection
  BY DEF SectionInv, Small, OneSection
<1> QED
  BY <1>1, SequentialInvariance, PTL

\* The same executions create one annotation, and find it from then on.
THEOREM AnnotationIsSingle == Sequential => (Spec => []OneAnnotation)
<1>1. AnnotationInv => OneAnnotation
  BY DEF AnnotationInv
<1> QED
  BY <1>1, SequentialInvariance, PTL

-----------------------------------------------------------------------------
(* Acknowledged texts.                                                      *)

Shows(m, r, f) == \E i \in DOMAIN m.sections : m.sections[i][r] = f

\* What the memo must have: the last texts of the acknowledged handlers that share
\* their rule with nobody.
Owed ==
  {<<RuleOf[h], flushes[h]>> :
     h \in {g \in Handlers : pc[g] = "acked"
                             /\ \A k \in Handlers \ {g} : RuleOf[k] # RuleOf[g]}}

Knows(m, owed) == \A o \in owed : Shows(m, o[1], o[2])

\* The memo, the cache and what a flush is about to write all have it, and a flush
\* that wrote has put its own text there.
AckInv ==
  /\ Knows(memo, Owed)
  /\ \A p \in Processes : cached[p] # NoMemo => Knows(cached[p], Owed)
  /\ \A h \in Handlers : pc[h] = "compose" => Knows(base[h], Owed)
  /\ \A h \in Handlers : pc[h] = "update" =>
       Knows(text[h], Owed) /\ Shows(text[h], RuleOf[h], flushes[h])
  /\ \A h \in Handlers : pc[h] \in {"find", "post"} =>
       /\ Shows(memo, RuleOf[h], flushes[h])
       /\ \A p \in Processes : cached[p] # NoMemo => Shows(cached[p], RuleOf[h], flushes[h])

\* Only a flush that succeeds adds to what is owed, and it adds its own text.
LEMMA OwedGrows ==
  ASSUME TypeOK, OneActive, NEW h \in Handlers, FlushStep(h), NEW o \in Owed'
  PROVE  o \in Owed \/ (Post(h) /\ o = <<RuleOf[h], flushes[h]>>)
<1>1. PICK g \in Handlers :
        /\ o = <<RuleOf[g], flushes'[g]>>
        /\ pc'[g] = "acked"
        /\ \A k \in Handlers \ {g} : RuleOf[k] # RuleOf[g]
  BY DEF Owed
<1>2. CASE g # h
  BY <1>1, <1>2, FlushFrame DEF Owed
<1>3. CASE g = h
  <2>1. CASE Post(h)
    BY <1>1, <1>3, <2>1, EndFlushControl DEF Post
  <2>2. CASE ReadFails(h) \/ UploadFails(h) \/ UpdateFails(h) \/ FindFails(h) \/ PostFails(h)
    BY <1>1, <1>3, <2>2, EndFlushControl DEF ReadFails, UploadFails, UpdateFails, FindFails,
       PostFails
  <2>3. CASE Read(h) \/ Compose(h) \/ Update(h) \/ Find(h)
    BY <1>1, <1>3, <2>3 DEF Read, Compose, Update, Find, TypeOK
  <2> QED
    BY <2>1, <2>2, <2>3 DEF FlushStep
<1> QED
  BY <1>2, <1>3

LEMMA OwedStays ==
  ASSUME TypeOK, OneActive, NEW h \in Handlers, FlushStep(h), ~ Post(h)
  PROVE  Owed' \subseteq Owed
BY OwedGrows

LEMMA KnowsLess ==
  ASSUME NEW m, NEW S, NEW T, Knows(m, S), T \subseteq S
  PROVE  Knows(m, T)
BY DEF Knows

LEMMA ComposeKnows ==
  ASSUME TypeOK, SectionInv, AckInv, NEW h \in Handlers, Compose(h)
  PROVE  Knows(text'[h], Owed) /\ Shows(text'[h], RuleOf[h], flushes[h])
<1>1. PICK s \in Section :
        /\ text'[h].sections = <<s>>
        /\ s[RuleOf[h]] = flushes[h]
        /\ base[h].sections # <<>> =>
             \A r \in Rules \ {RuleOf[h]} : s[r] = base[h].sections[1][r]
  BY ComposeShape
<1>2. \A r, f : s[r] = f => Shows(text'[h], r, f)
  <2>1. 1 \in DOMAIN <<s>> /\ <<s>>[1] = s
    OBVIOUS
  <2> QED
    BY <1>1, <2>1 DEF Shows
<1>3. base[h].sections \in Seq(Section) /\ Len(base[h].sections) <= 1 /\ pc[h] = "compose"
  BY DEF TypeOK, Memo, SectionInv, Small, Compose
<1>4. ASSUME NEW o \in Owed PROVE Shows(text'[h], o[1], o[2])
  <2>1. PICK g \in Handlers :
          /\ o = <<RuleOf[g], flushes[g]>>
          /\ pc[g] = "acked"
          /\ \A k \in Handlers \ {g} : RuleOf[k] # RuleOf[g]
    BY DEF Owed
  <2>2. RuleOf[g] \in Rules \ {RuleOf[h]}
    BY <1>3, <2>1, ConstantsAssumption
  <2>3. PICK i \in DOMAIN base[h].sections : base[h].sections[i][o[1]] = o[2]
    BY <1>3 DEF AckInv, Knows, Shows
  <2>4. i = 1 /\ base[h].sections # <<>>
    BY <1>3
  <2>5. s[o[1]] = o[2]
    BY <1>1, <2>1, <2>2, <2>3, <2>4
  <2> QED
    BY <1>2, <2>5
<1> QED
  BY <1>1, <1>2, <1>4 DEF Knows

LEMMA AckKeeps ==
  OneProcess /\ TypeOK /\ Placed /\ OneActive /\ SectionInv /\ AckInv /\ [Next]_vars
    => AckInv'
<1> SUFFICES ASSUME OneProcess, TypeOK, Placed, OneActive, SectionInv, AckInv, [Next]_vars
             PROVE  AckInv'
  OBVIOUS
<1>1. ASSUME NEW h \in Handlers, NEW p \in Processes, Receive(h, p)
      PROVE  AckInv'
  <2>1. Owed' = Owed
    BY <1>1 DEF Receive, TypeOK, Owed
  <2>2. /\ UNCHANGED <<memo, cached, base, text>>
        /\ pc'[h] = "read"
        /\ \A g \in Handlers \ {h} : pc'[g] = pc[g] /\ flushes'[g] = flushes[g]
    BY <1>1 DEF Receive, TypeOK
  <2> QED
    BY <2>1, <2>2 DEF AckInv
<1>2. ASSUME NEW h \in Handlers, FlushStep(h)
      PROVE  AckInv'
  <2> USE <1>2
  <2>1. \A g \in Handlers \ {h} : pc'[g] \notin {"compose", "update", "find", "post"}
    BY OthersRest DEF Stages
  <2>2. proc[h] \in Processes /\ \A p \in Processes : p = proc[h]
    BY FlushFrame DEF Placed, OneProcess
  <2>3. CASE Read(h)
    <3> DEFINE got == IF cached[proc[h]] # NoMemo /\ fresh[proc[h]]
                        THEN cached[proc[h]] ELSE memo
    <3>1. /\ cached' = [cached EXCEPT ![proc[h]] = got]
          /\ base' = [base EXCEPT ![h] = got]
          /\ pc' = [pc EXCEPT ![h] = "compose"]
          /\ memo' = memo
      BY <2>3 DEF Read
    <3>2. Knows(got, Owed)
      BY <2>2 DEF AckInv
    <3> HIDE DEF got
    <3>3. Owed' \subseteq Owed
      BY <2>3, OwedStays DEF Read, Post
    <3>4. Knows(got, Owed') /\ Knows(memo, Owed')
      BY <3>2, <3>3, KnowsLess DEF AckInv
    <3>5. pc'[h] = "compose" /\ base'[h] = got /\ \A p \in Processes : cached'[p] = got
      BY <2>2, <3>1 DEF TypeOK
    <3> QED
      BY <2>1, <3>1, <3>4, <3>5 DEF AckInv
  <2>4. CASE Compose(h)
    <3>1. Owed' \subseteq Owed
      BY <2>4, OwedStays DEF Compose, Post
    <3>2. Knows(text'[h], Owed') /\ Shows(text'[h], RuleOf[h], flushes[h])
      BY <2>4, <3>1, ComposeKnows, KnowsLess
    <3>3. UNCHANGED <<memo, cached, flushes>> /\ pc'[h] = "update"
      BY <2>4 DEF Compose, deliveryVars, TypeOK
    <3>4. Knows(memo, Owed') /\ \A p \in Processes : cached[p] # NoMemo => Knows(cached[p], Owed')
      BY <3>1, KnowsLess DEF AckInv
    <3> QED
      BY <2>1, <3>2, <3>3, <3>4 DEF AckInv
  <2>5. CASE Update(h)
    <3>1. Owed' \subseteq Owed
      BY <2>5, OwedStays DEF Update, Post
    <3>2. Knows(text[h], Owed') /\ Shows(text[h], RuleOf[h], flushes[h])
      BY <2>5, <3>1, KnowsLess DEF AckInv, Update
    <3>3. /\ memo' = text[h] /\ flushes' = flushes /\ pc'[h] = "find"
          /\ \A p \in Processes : cached'[p] \in {NoMemo, text[h]}
      BY <2>2, <2>5 DEF Update, deliveryVars, TypeOK
    <3> QED
      BY <2>1, <3>2, <3>3 DEF AckInv
  <2>6. CASE UpdateFails(h)
    <3>1. Owed' \subseteq Owed
      BY <2>6, OwedStays DEF UpdateFails, Post
    <3>2. Knows(memo', Owed')
      <4>1. memo' \in {memo, text[h]} /\ pc[h] = "update"
        BY <2>6 DEF UpdateFails
      <4> QED
        BY <3>1, <4>1, KnowsLess DEF AckInv
    <3>3. \A p \in Processes : cached[p] # NoMemo => Knows(cached[p], Owed')
      BY <3>1, KnowsLess DEF AckInv
    <3>4. cached' = cached /\ pc'[h] \notin {"compose", "update", "find", "post"}
      BY <2>6, EndFlushControl DEF UpdateFails
    <3> QED
      BY <2>1, <3>2, <3>3, <3>4 DEF AckInv
  <2>7. CASE Find(h)
    <3>1. Owed' \subseteq Owed
      BY <2>7, OwedStays DEF Find, Post
    <3>2. Knows(memo, Owed') /\ \A p \in Processes : cached[p] # NoMemo => Knows(cached[p], Owed')
      BY <3>1, KnowsLess DEF AckInv
    <3>3. UNCHANGED <<memo, cached, flushes>> /\ pc[h] = "find" /\ pc'[h] = "post"
      BY <2>7 DEF Find, deliveryVars, TypeOK
    <3> QED
      BY <2>1, <3>2, <3>3 DEF AckInv
  <2>8. CASE Post(h)
    <3>0. /\ Shows(memo, RuleOf[h], flushes[h])
          /\ \A p \in Processes : cached[p] # NoMemo => Shows(cached[p], RuleOf[h], flushes[h])
      BY <2>8 DEF AckInv, Post
    <3>9. ASSUME NEW m, Knows(m, Owed), Shows(m, RuleOf[h], flushes[h])
          PROVE  Knows(m, Owed')
      <4>1. ASSUME NEW o \in Owed' PROVE Shows(m, o[1], o[2])
        <5>1. CASE o \in Owed
          BY <3>9, <5>1 DEF Knows
        <5>2. CASE o = <<RuleOf[h], flushes[h]>>
          BY <3>9, <5>2
        <5> QED
          BY <5>1, <5>2, OwedGrows
      <4> QED
        BY <4>1 DEF Knows
    <3>1. Knows(memo, Owed')
      BY <3>0, <3>9 DEF AckInv
    <3>2. \A p \in Processes : cached[p] # NoMemo => Knows(cached[p], Owed')
      BY <3>0, <3>9 DEF AckInv
    <3>3. UNCHANGED <<memo, cached>> /\ pc'[h] \notin {"compose", "update", "find", "post"}
      BY <2>8, EndFlushControl DEF Post
    <3> QED
      BY <2>1, <3>1, <3>2, <3>3 DEF AckInv
  <2>9. CASE ReadFails(h) \/ UploadFails(h) \/ FindFails(h) \/ PostFails(h)
    <3>1. UNCHANGED <<memo, cached>> /\ pc'[h] \notin {"compose", "update", "find", "post"}
      BY <2>9, EndFlushControl DEF ReadFails, UploadFails, FindFails, PostFails
    <3>3. Owed' \subseteq Owed \/ Post(h)
      BY OwedStays
    <3>4. CASE ~ Post(h)
      <4>1. Knows(memo, Owed') /\ \A p \in Processes : cached[p] # NoMemo => Knows(cached[p], Owed')
        BY <3>3, <3>4, KnowsLess DEF AckInv
      <4> QED
        BY <2>1, <3>1, <4>1 DEF AckInv
    <3> QED
      BY <2>8, <3>4
  <2> QED
    BY <2>3, <2>4, <2>5, <2>6, <2>7, <2>8, <2>9 DEF FlushStep
<1>3. ASSUME NEW p \in Processes, Crash(p)
      PROVE  AckInv'
  <2>1. \A h \in Handlers : pc'[h] \in {pc[h], "queued"} /\ flushes' = flushes
    BY <1>3 DEF Crash, TypeOK
  <2>2. Owed' \subseteq Owed
    BY <2>1 DEF Owed
  <2>3. Knows(memo, Owed') /\ \A q \in Processes : cached[q] # NoMemo => Knows(cached[q], Owed')
    BY <2>2, KnowsLess DEF AckInv
  <2>4. \A h \in Handlers :
          /\ pc[h] = "compose" => Knows(base[h], Owed')
          /\ pc[h] = "update" => Knows(text[h], Owed')
    BY <2>2, KnowsLess DEF AckInv
  <2>5. /\ UNCHANGED <<memo, base, text>>
        /\ \A q \in Processes : cached'[q] \in {NoMemo, cached[q]}
    BY <1>3 DEF Crash, TypeOK
  <2> QED
    BY <2>1, <2>3, <2>4, <2>5 DEF AckInv
<1>4. ASSUME NEW p \in Processes, Expire(p)
      PROVE  AckInv'
  <2>1. Owed' = Owed
    BY <1>4 DEF Expire, Owed, deliveryVars
  <2> QED
    BY <1>4, <2>1 DEF AckInv, Expire, deliveryVars
<1>5. ASSUME NEW n \in Notes, AddNote(n)
      PROVE  AckInv'
  <2>1. Owed' = Owed
    BY <1>5 DEF AddNote, Owed
  <2>2. memo'.sections = memo.sections
    BY <1>5 DEF AddNote, TypeOK, Memo
  <2> QED
    BY <1>5, <2>1, <2>2 DEF AckInv, AddNote, Knows, Shows
<1>6. CASE UNCHANGED vars
  <2>1. Owed' = Owed
    BY <1>6 DEF vars, Owed
  <2> QED
    BY <1>6, <2>1 DEF AckInv, vars
<1> QED
  BY <1>1, <1>2, <1>3, <1>4, <1>5, <1>6 DEF Next, Quiet

\* Executions one after the other in one process: whatever they wrote, lost or left
\* unfinished, the text of an acknowledged webhook is in the memo.
THEOREM AckedStays == Sequential /\ OneProcess => (Spec => []AckedTextStays)
<1> SUFFICES ASSUME Sequential, OneProcess PROVE Spec => []AckedTextStays
  OBVIOUS
<1>1. Init => AckInv
  <2> SUFFICES ASSUME Init PROVE AckInv
    OBVIOUS
  <2>1. Owed = {}
    BY DEF Init, Owed
  <2> QED
    BY <2>1 DEF Init, AckInv, Knows
<1>2. TypeOK /\ Placed /\ OneActive /\ SectionInv /\ AckInv /\ [Next]_vars => AckInv'
  BY AckKeeps
<1>3. AckInv => AckedTextStays
  <2> SUFFICES ASSUME AckInv, NEW h \in Handlers, pc[h] = "acked",
                      \A g \in Handlers \ {h} : RuleOf[g] # RuleOf[h]
               PROVE  Shows(memo, RuleOf[h], flushes[h])
    BY DEF AckedTextStays, Shows
  <2>1. <<RuleOf[h], flushes[h]>> \in Owed
    BY DEF Owed
  <2> QED
    BY <2>1 DEF AckInv, Knows
<1> QED
  BY <1>1, <1>2, <1>3, SequentialInvariance, PTL DEF Spec

-----------------------------------------------------------------------------
(* Notes.                                                                   *)

\* What a flush is about to write has the notes that its process knows of.
NoteInv ==
  \A p \in Processes : cached[p] # NoMemo =>
    \A h \in Handlers :
      /\ pc[h] = "compose" => cached[p].notes \subseteq base[h].notes
      /\ pc[h] = "update" => cached[p].notes \subseteq text[h].notes

LEMMA NoteKeeps ==
  OneProcess /\ TypeOK /\ Placed /\ OneActive /\ SectionInv /\ NoteInv /\ [Next]_vars
    => NoteInv'
<1> SUFFICES ASSUME OneProcess, TypeOK, Placed, OneActive, SectionInv, NoteInv, [Next]_vars
             PROVE  NoteInv'
  OBVIOUS
<1>1. ASSUME NEW h \in Handlers, FlushStep(h)
      PROVE  NoteInv'
  <2> USE <1>1
  <2>1. \A g \in Handlers \ {h} : pc'[g] \notin {"compose", "update"}
    BY OthersRest DEF Stages
  <2>2. proc[h] \in Processes /\ \A p \in Processes : p = proc[h]
    BY FlushFrame DEF Placed, OneProcess
  <2>3. CASE Read(h)
    <3>1. base'[h] = cached'[proc[h]] /\ pc'[h] = "compose"
      BY <2>2, <2>3 DEF Read, TypeOK
    <3> QED
      BY <2>1, <2>2, <3>1 DEF NoteInv
  <2>4. CASE Compose(h)
    <3>1. text'[h].notes = base[h].notes
      BY <2>4, ComposeShape
    <3>2. cached' = cached /\ pc[h] = "compose" /\ pc'[h] = "update"
      BY <2>4 DEF Compose, TypeOK
    <3> QED
      BY <2>1, <3>1, <3>2 DEF NoteInv
  <2>5. CASE ~ Read(h) /\ ~ Compose(h)
    <3>1. pc'[h] \notin {"compose", "update"}
      BY <2>5, EndFlushControl DEF FlushStep, ReadFails, UploadFails, Update, UpdateFails,
         Find, FindFails, Post, PostFails, TypeOK
    <3> QED
      BY <2>1, <3>1 DEF NoteInv
  <2> QED
    BY <2>3, <2>4, <2>5
<1>2. ASSUME NEW p \in Processes, Crash(p)
      PROVE  NoteInv'
  BY <1>2 DEF NoteInv, Crash, TypeOK
<1>3. ASSUME NEW h \in Handlers, NEW p \in Processes, Receive(h, p)
      PROVE  NoteInv'
  BY <1>3 DEF NoteInv, Receive, TypeOK
<1>4. ASSUME UNCHANGED <<cached, pc, base, text>>
      PROVE  NoteInv'
  BY <1>4 DEF NoteInv
<1> QED
  BY <1>1, <1>2, <1>3, <1>4 DEF Next, Quiet, vars, Expire, AddNote

LEMMA NotesAreKept ==
  ASSUME OneProcess, TypeOK, Placed, NoteInv, [Next]_vars
  PROVE  [\A n \in memo.notes \ memo'.notes, p \in Processes :
            cached[p] # NoMemo => n \notin cached[p].notes]_vars
<1>1. ASSUME NEW h \in Handlers, Update(h) \/ UpdateFails(h)
      PROVE  \A n \in memo.notes \ memo'.notes, p \in Processes :
               cached[p] # NoMemo => n \notin cached[p].notes
  <2>1. memo' \in {memo, text[h]} /\ pc[h] = "update"
    BY <1>1 DEF Update, UpdateFails
  <2> QED
    BY <2>1 DEF NoteInv
<1>2. ASSUME NEW n \in Notes, AddNote(n)
      PROVE  memo.notes \subseteq memo'.notes
  BY <1>2 DEF AddNote, TypeOK, Memo
<1>3. ASSUME memo' = memo
      PROVE  memo.notes \subseteq memo'.notes
  BY <1>3
<1>4. \/ \E h \in Handlers : Update(h) \/ UpdateFails(h)
      \/ \E n \in Notes : AddNote(n)
      \/ memo' = memo
  BY DEF Next, FlushStep, Quiet, vars, Receive, Read, ReadFails, Compose, UploadFails,
     Find, FindFails, Post, PostFails, Crash, Expire
<1> QED
  BY <1>1, <1>2, <1>3, <1>4

\* No flush of these executions removes a note that its process knew of.
THEOREM NotesStay == Sequential /\ OneProcess => (Spec => KnownNotesStay)
<1> SUFFICES ASSUME Sequential, OneProcess PROVE Spec => KnownNotesStay
  OBVIOUS
<1>1. Init => NoteInv
  BY DEF Init, NoteInv
<1>2. TypeOK /\ Placed /\ OneActive /\ SectionInv /\ NoteInv /\ [Next]_vars => NoteInv'
  BY NoteKeeps
<1>3. TypeOK /\ Placed /\ NoteInv /\ [Next]_vars
        => [\A n \in memo.notes \ memo'.notes, p \in Processes :
              cached[p] # NoMemo => n \notin cached[p].notes]_vars
  BY NotesAreKept
<1> QED
  BY <1>1, <1>2, <1>3, SequentialInvariance, PTL DEF Spec, KnownNotesStay

=============================================================================
