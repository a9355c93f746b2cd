---------------------------- MODULE AlertUpdate ----------------------------
(***************************************************************************)
(* How executions that report on ONE alert share its memo and its graph     *)
(* annotation at Mackerel (mackerel.go, MackerelUpdater.Flush).             *)
(*                                                                         *)
(* A flush reads the alert, through a cache that every process keeps for a   *)
(* minute, builds a whole new memo from what it read and overwrites the      *)
(* memo; then it looks for the annotation and updates or creates it.  No     *)
(* lock is held between these steps.  The cache hands out a pointer, and      *)
(* UpdateAlertMemo changes the cached alert in place, so that a flush that    *)
(* is under way may see its own alert change.                                *)
(*                                                                         *)
(* Abstractions.  A memo is the set of notes that people wrote outside       *)
(* Prepalert's sections, and the "## Prepalert" sections in their order.  A   *)
(* section gives for each rule the number of the flush that rendered it, 0    *)
(* when it has no such rule.  A handler is one delivery of a webhook, whose   *)
(* execution flushes up to MaxFlush times; its rule is a rule that only this *)
(* webhook matches, or one that several match.  The lengths of texts and of   *)
(* the memo are left to MemoDocument.                                        *)
(***************************************************************************)
EXTENDS Naturals, Sequences, FiniteSets

CONSTANTS
  Handlers,     \* deliveries of webhooks of this alert
  Processes,    \* worker processes (Lambda instances), each with its cache
  Rules,
  RuleOf,       \* handler -> the rule it reports for
  Notes,        \* what people may add to the memo
  MaxFlush,     \* flushes of one execution
  MaxTries,     \* deliveries of one webhook
  Parallel,     \* how many handlers run at a time
  LostAnswers,  \* an update may be applied and still fail for its caller
  NoMemo,
  NoProcess

ASSUME ConstantsAssumption ==
  /\ RuleOf \in [Handlers -> Rules]
  /\ MaxFlush \in Nat \ {0}
  /\ MaxTries \in Nat \ {0}
  /\ Parallel \in Nat \ {0}
  /\ LostAnswers \in BOOLEAN
  /\ NoProcess \notin Processes

Section == [Rules -> 0 .. MaxFlush]

Memo == [notes : SUBSET Notes, sections : Seq(Section)]

ASSUME NoMemoAssumption == NoMemo \notin Memo

VARIABLES
  memo,         \* the alert's memo at Mackerel
  annotations,  \* how many annotations carry this alert's title
  cached,       \* process -> alertCache
  fresh,        \* process -> alertCachedAt is less than CacheDuration ago
  pc,           \* handler -> the next step of its flush
  proc,         \* handler -> the process it runs in
  alert,        \* handler -> memo of the alert object it holds
  shared,       \* handler -> that object is still the cached one
  base,         \* handler -> currentMemo
  text,         \* handler -> the memo to write
  found,        \* handler -> the annotation was there
  flushes,      \* handler -> flushes begun in this delivery
  failed,       \* handler -> a flush of this delivery failed
  tries         \* handler -> deliveries so far

vars == <<memo, annotations, cached, fresh, pc, proc, alert, shared, base, text,
          found, flushes, failed, tries>>

deliveryVars == <<proc, flushes, failed, tries>>

Stages == {"read", "compose", "update", "find", "post"}

active == {h \in Handlers : pc[h] \in Stages}

TypeOK ==
  /\ memo \in Memo
  /\ annotations \in Nat
  /\ cached \in [Processes -> Memo \cup {NoMemo}]
  /\ fresh \in [Processes -> BOOLEAN]
  /\ pc \in [Handlers -> Stages \cup {"queued", "acked"}]
  /\ proc \in [Handlers -> Processes \cup {NoProcess}]
  /\ alert \in [Handlers -> Memo]
  /\ shared \in [Handlers -> BOOLEAN]
  /\ base \in [Handlers -> Memo]
  /\ text \in [Handlers -> Memo]
  /\ found \in [Handlers -> BOOLEAN]
  /\ flushes \in [Handlers -> 0 .. MaxFlush]
  /\ failed \in [Handlers -> BOOLEAN]
  /\ tries \in [Handlers -> 0 .. MaxTries]

EmptyMemo == [notes |-> {}, sections |-> <<>>]

Init ==
  /\ memo = EmptyMemo
  /\ annotations = 0
  /\ cached = [p \in Processes |-> NoMemo]
  /\ fresh = [p \in Processes |-> FALSE]
  /\ pc = [h \in Handlers |-> "queued"]
  /\ proc = [h \in Handlers |-> NoProcess]
  /\ alert = [h \in Handlers |-> EmptyMemo]
  /\ shared = [h \in Handlers |-> FALSE]
  /\ base = [h \in Handlers |-> EmptyMemo]
  /\ text = [h \in Handlers |-> EmptyMemo]
  /\ found = [h \in Handlers |-> FALSE]
  /\ flushes = [h \in Handlers |-> 0]
  /\ failed = [h \in Handlers |-> FALSE]
  /\ tries = [h \in Handlers |-> 0]

-----------------------------------------------------------------------------
(* Deliveries.                                                              *)

\* A process takes the webhook up, for the first time or again.
Receive(h, p) ==
  /\ pc[h] = "queued"
  /\ tries[h] < MaxTries
  /\ Cardinality(active) < Parallel
  /\ pc' = [pc EXCEPT ![h] = "read"]
  /\ proc' = [proc EXCEPT ![h] = p]
  /\ flushes' = [flushes EXCEPT ![h] = 1]
  /\ failed' = [failed EXCEPT ![h] = FALSE]
  /\ tries' = [tries EXCEPT ![h] = @ + 1]
  /\ UNCHANGED <<memo, annotations, cached, fresh, alert, shared, base, text, found>>

\* Mutant: one flush more than there are queries.
EndFlushOnceMore(h, ok) ==
  LET bad == failed[h] \/ ~ok IN
  /\ failed' = [failed EXCEPT ![h] = bad]
  /\ shared' = [shared EXCEPT ![h] = FALSE]
  /\ \/ /\ flushes[h] <= MaxFlush
        /\ flushes' = [flushes EXCEPT ![h] = @ + 1]
        /\ pc' = [pc EXCEPT ![h] = "read"]
        /\ UNCHANGED <<proc, tries>>
     \/ /\ pc' = [pc EXCEPT ![h] = IF bad THEN "queued" ELSE "acked"]
        /\ proc' = [proc EXCEPT ![h] = NoProcess]
        /\ UNCHANGED <<flushes, tries>>

\* Flush returns.  The execution goes on to another flush, or it ends: nil
\* acknowledges the message, an error leaves it in the queue.
EndFlush(h, ok) ==
  LET bad == failed[h] \/ ~ok IN
  /\ failed' = [failed EXCEPT ![h] = bad]
  /\ shared' = [shared EXCEPT ![h] = FALSE]
  /\ \/ /\ flushes[h] < MaxFlush
        /\ flushes' = [flushes EXCEPT ![h] = @ + 1]
        /\ pc' = [pc EXCEPT ![h] = "read"]
        /\ UNCHANGED <<proc, tries>>
     \/ /\ pc' = [pc EXCEPT ![h] = IF bad THEN "queued" ELSE "acked"]
        /\ proc' = [proc EXCEPT ![h] = NoProcess]
        /\ UNCHANGED <<flushes, tries>>

\* A process dies, with its cache and whatever it was executing.
Crash(p) ==
  LET gone == {h \in Handlers : proc[h] = p} IN
  /\ gone # {}
  /\ cached' = [cached EXCEPT ![p] = NoMemo]
  /\ fresh' = [fresh EXCEPT ![p] = FALSE]
  /\ pc' = [h \in Handlers |-> IF h \in gone THEN "queued" ELSE pc[h]]
  /\ proc' = [h \in Handlers |-> IF h \in gone THEN NoProcess ELSE proc[h]]
  /\ shared' = [h \in Handlers |-> shared[h] /\ h \notin gone]
  /\ UNCHANGED <<memo, annotations, alert, base, text, found, flushes, failed, tries>>

-----------------------------------------------------------------------------
(* The memo.                                                                *)

\* GetAlertWithCache, and currentMemo := alert.Memo.  A miss replaces the cached
\* object, and those who hold the old one keep it as it is.
Read(h) ==
  /\ pc[h] = "read"
  /\ LET p == proc[h]
         hit == cached[p] # NoMemo /\ fresh[p]
         got == IF hit THEN cached[p] ELSE memo
     IN /\ cached' = [cached EXCEPT ![p] = got]
        /\ fresh' = [fresh EXCEPT ![p] = TRUE]
        /\ alert' = [alert EXCEPT ![h] = got]
        /\ base' = [base EXCEPT ![h] = got]
        /\ shared' = [g \in Handlers |->
                        g = h \/ (shared[g] /\ (proc[g] = p => hit))]
  /\ pc' = [pc EXCEPT ![h] = "compose"]
  /\ UNCHANGED <<memo, annotations, text, found, deliveryVars>>

\* GetAlert fails.
ReadFails(h) ==
  /\ pc[h] = "read"
  /\ cached[proc[h]] = NoMemo \/ ~fresh[proc[h]]
  /\ EndFlush(h, FALSE)
  /\ UNCHANGED <<memo, annotations, cached, fresh, alert, base, text, found>>

\* Mutant: the section is put after the memo even if there is one already.
ComposeAppends(h) ==
  /\ pc[h] = "compose"
  /\ text' = [text EXCEPT ![h] =
                [alert[h] EXCEPT !.sections =
                   Append(@, [r \in Rules |-> IF r = RuleOf[h] THEN flushes[h] ELSE 0])]]
  /\ pc' = [pc EXCEPT ![h] = "update"]
  /\ UNCHANGED <<memo, annotations, cached, fresh, alert, shared, base, found, deliveryVars>>

\* Mutant: only the sections are kept, not what is around them.
ComposeDropsNotes(h) ==
  /\ pc[h] = "compose"
  /\ text' = [text EXCEPT ![h] =
                [notes |-> {},
                 sections |-> <<[r \in Rules |-> IF r = RuleOf[h] THEN flushes[h] ELSE 0]>>]]
  /\ pc' = [pc EXCEPT ![h] = "update"]
  /\ UNCHANGED <<memo, annotations, cached, fresh, alert, shared, base, found, deliveryVars>>

\* The upload is over, and the new memo is put together.  If currentMemo had a
\* section, it (and every section equal to it) is replaced in currentMemo;
\* otherwise a new section follows alert.Memo, which is read once more here.
Compose(h) ==
  /\ pc[h] = "compose"
  /\ LET old == base[h].sections
         mine == [r \in Rules |-> IF r = RuleOf[h] THEN flushes[h] ELSE 0]
         merged == [old[1] EXCEPT ![RuleOf[h]] = flushes[h]]
     IN text' = [text EXCEPT ![h] =
                  IF old = <<>>
                    THEN [alert[h] EXCEPT !.sections = Append(@, mine)]
                    ELSE [base[h] EXCEPT !.sections =
                           [i \in DOMAIN old |-> IF old[i] = old[1] THEN merged ELSE old[i]]]]
  /\ pc' = [pc EXCEPT ![h] = "update"]
  /\ UNCHANGED <<memo, annotations, cached, fresh, alert, shared, base, found, deliveryVars>>

\* The backend does not take the full text.
UploadFails(h) ==
  /\ pc[h] = "compose"
  /\ EndFlush(h, FALSE)
  /\ UNCHANGED <<memo, annotations, cached, fresh, alert, base, text, found>>

\* Mutant: the cached alert keeps the memo it was fetched with.
UpdateForgetsCache(h) ==
  /\ pc[h] = "update"
  /\ memo' = text[h]
  /\ pc' = [pc EXCEPT ![h] = "find"]
  /\ UNCHANGED <<annotations, cached, fresh, alert, shared, base, text, found, deliveryVars>>

\* UpdateAlertMemo: the memo is overwritten, and the cached alert is changed in
\* place under everybody who holds it.
Update(h) ==
  /\ pc[h] = "update"
  /\ memo' = text[h]
  /\ LET p == proc[h] IN
       /\ cached' = [cached EXCEPT ![p] = IF @ = NoMemo THEN NoMemo ELSE text[h]]
       /\ alert' = [g \in Handlers |-> IF shared[g] /\ proc[g] = p THEN text[h] ELSE alert[g]]
  /\ pc' = [pc EXCEPT ![h] = "find"]
  /\ UNCHANGED <<annotations, fresh, shared, base, text, found, deliveryVars>>

\* The caller gets an error; with a lost answer the memo has changed though.
UpdateFails(h) ==
  /\ pc[h] = "update"
  /\ memo' \in {memo} \cup (IF LostAnswers THEN {text[h]} ELSE {})
  /\ EndFlush(h, FALSE)
  /\ UNCHANGED <<annotations, cached, fresh, alert, base, text, found>>

-----------------------------------------------------------------------------
(* The annotation.                                                          *)

\* FindGraphAnnotations, and whether one has this alert's title.
Find(h) ==
  /\ pc[h] = "find"
  /\ found' = [found EXCEPT ![h] = annotations > 0]
  /\ pc' = [pc EXCEPT ![h] = "post"]
  /\ UNCHANGED <<memo, annotations, cached, fresh, alert, shared, base, text, deliveryVars>>

FindFails(h) ==
  /\ pc[h] = "find"
  /\ EndFlush(h, FALSE)
  /\ UNCHANGED <<memo, annotations, cached, fresh, alert, base, text, found>>

\* Mutant: the annotation is created without looking for one.
PostCreates(h) ==
  /\ pc[h] = "post"
  /\ annotations' = annotations + 1
  /\ EndFlush(h, TRUE)
  /\ UNCHANGED <<memo, cached, fresh, alert, base, text, found>>

\* The one that was found is overwritten, or one is created.
Post(h) ==
  /\ pc[h] = "post"
  /\ annotations' = IF found[h] THEN annotations ELSE annotations + 1
  /\ EndFlush(h, TRUE)
  /\ UNCHANGED <<memo, cached, fresh, alert, base, text, found>>

PostFails(h) ==
  /\ pc[h] = "post"
  /\ annotations' \in {annotations}
       \cup (IF LostAnswers /\ ~found[h] THEN {annotations + 1} ELSE {})
  /\ EndFlush(h, FALSE)
  /\ UNCHANGED <<memo, cached, fresh, alert, base, text, found>>

-----------------------------------------------------------------------------
(* The world.                                                               *)

\* Somebody adds a note to the memo in Mackerel's console.
AddNote(n) ==
  /\ n \notin memo.notes
  /\ memo' = [memo EXCEPT !.notes = @ \cup {n}]
  /\ UNCHANGED <<annotations, cached, fresh, pc, proc, alert, shared, base, text, found,
                 flushes, failed, tries>>

\* CacheDuration goes by.
Expire(p) ==
  /\ fresh[p]
  /\ fresh' = [fresh EXCEPT ![p] = FALSE]
  /\ UNCHANGED <<memo, annotations, cached, pc, alert, shared, base, text, found, deliveryVars>>

Quiet == active = {} /\ UNCHANGED vars

FlushStep(h) ==
  \/ Read(h) \/ ReadFails(h)
  \/ Compose(h) \/ UploadFails(h)
  \/ Update(h) \/ UpdateFails(h)
  \/ Find(h) \/ FindFails(h)
  \/ Post(h) \/ PostFails(h)

Next ==
  \/ \E h \in Handlers, p \in Processes : Receive(h, p)
  \/ \E h \in Handlers : FlushStep(h)
  \/ \E p \in Processes : Crash(p) \/ Expire(p)
  \/ \E n \in Notes : AddNote(n)
  \/ Quiet

Spec == Init /\ [][Next]_vars

-----------------------------------------------------------------------------
(* Properties.                                                              *)

\* UpdateAlertMemo keeps the cache in step: without edits and lost answers from
\* outside, what a process has cached is what Mackerel has, even while several
\* of its handlers overwrite one another and objects expire under them.
CacheIsCurrent ==
  \A p \in Processes : cached[p] \in {NoMemo, memo}

\* A webhook that was acknowledged is reported: the memo has the last text of
\* its rule, whichever other handlers wrote, failed or crashed since.
AckedTextStays ==
  \A h \in Handlers :
    /\ pc[h] = "acked"
    /\ \A g \in Handlers \ {h} : RuleOf[g] # RuleOf[h]
    => \E i \in DOMAIN memo.sections : memo.sections[i][RuleOf[h]] = flushes[h]

\* Prepalert keeps to one section of the memo and one annotation per alert.
OneSection == Len(memo.sections) <= 1
OneAnnotation == annotations <= 1

\* A flush removes no note that its process knew of when it began.
KnownNotesStay ==
  [][\A n \in memo.notes \ memo'.notes, p \in Processes :
       cached[p] # NoMemo => n \notin cached[p].notes]_vars

=============================================================================
