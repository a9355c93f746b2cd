---------------------------- MODULE MemoDocument ----------------------------
(***************************************************************************)
(* The text of an alert's memo through the flushes of one execution after     *)
(* another (updater.go Flush, util.go), and the full text that a flush puts   *)
(* behind the memo's link (backend.go Upload), after the backend was set up.  *)
(*                                                                         *)
(* A flush takes the "## Prepalert" section out of the memo, replaces in it   *)
(* the "### rule.x" sections of its rules, cut to max_size, or adds them at   *)
(* the end, and puts the section back.  The full text is put together in the  *)
(* same way from the texts before they are cut, and is uploaded first.        *)
(*                                                                         *)
(* Abstractions.  A text is a sequence of lines, sizes are numbers of lines,   *)
(* and blank lines are left out, but for the newline that Flush adds at the    *)
(* end after it has cut the memo: it counts as a line when the memo is cut the *)
(* next time.  Nobody else writes the memo between the reading and the writing *)
(* of one flush: AlertUpdate is about that.                                  *)
(***************************************************************************)
EXTENDS BackendSetup, Naturals, Sequences, SequencesExt

CONSTANTS
  Names,      \* names of the sections, "rule." and the name of a rule
  Begins,     \* pairs of names of which the first is a beginning of the second
  Orders,     \* the sections of one execution, in the order of its rules
  Texts,      \* what a rule may render to
  LengthOf,   \* text -> its lines
  SizeLimit,  \* name -> max_size, NoLimit if there is none
  Limit,      \* AlertMemoMaxSize
  Dirs,       \* what object_key_template may evaluate to
  Notes,      \* what people may write
  MaxRounds,  \* flushes of one execution
  Prepalert, Other,  \* titles: "## Prepalert", and a heading that people use
  Ellipsis, NoLimit, NoText, NoDir

ASSUME ConstantsAssumption ==
  /\ Begins \subseteq Names \X Names
  /\ Orders \subseteq Seq(Names)
  /\ LengthOf \in [Texts -> Nat \ {0}]
  /\ SizeLimit \in [Names -> Nat \cup {NoLimit}]
  /\ Limit \in Nat \ {0}
  /\ NoText \notin Texts /\ NoDir \notin Dirs
  /\ Prepalert # Other

VARIABLES
  memo,    \* alert.Memo
  newline, \* whether it ends with one
  docs,    \* dir -> the object that was uploaded there, empty if none was
  names,   \* memoSectionNames
  texts,   \* memoSectionText
  stage,   \* what the execution does next
  dir,     \* where the full text of this flush is, NoDir if it was not uploaded
  ahead    \* names whose text the linked object got without the memo following

memoVars == <<memo, newline, docs, names, texts, stage, dir, ahead>>
vars == <<setupVars, memoVars>>

Line(kind, title) == [kind |-> kind, title |-> title]
Header == Line("##", Prepalert)
OtherHeader == Line("##", Other)
Section(name) == Line("###", name)
Note(n) == Line("text", n)

Lines ==
  {Header, OtherHeader} \cup {Section(n) : n \in Names}
    \cup {Line("text", t) : t \in Texts \cup Notes \cup {Ellipsis}}
    \cup {Line("url", d) : d \in Dirs}

MemoTypeOK ==
  /\ memo \in Seq(Lines)
  /\ newline \in BOOLEAN
  /\ docs \in [Dirs -> Seq(Lines)]
  /\ names \in Seq(Names)
  /\ texts \in [Names -> Texts \cup {NoText}]
  /\ stage \in {"idle", "rendered", "uploaded", "flushed", "failed"}
  /\ dir \in Dirs \cup {NoDir}
  /\ ahead \subseteq Names

TypeOK == SetupTypeOK /\ MemoTypeOK

Init ==
  /\ SetupInit
  /\ memo = <<>>
  /\ newline = FALSE
  /\ docs = [d \in Dirs |-> <<>>]
  /\ names = <<>>
  /\ texts = [n \in Names |-> NoText]
  /\ stage = "idle"
  /\ dir = NoDir
  /\ ahead = {}

-----------------------------------------------------------------------------
(* util.go.                                                                 *)

\* triming of what is too long.
Abbreviated(msg, limit, abbreviation) ==
  LET n == Len(abbreviation)
  IN IF n >= limit THEN SubSeq(abbreviation, 1, limit)
     ELSE SubSeq(msg, 1, limit - n) \o abbreviation

triming(msg, limit, abbreviation) ==
  IF Len(msg) <= limit THEN msg ELSE Abbreviated(msg, limit, abbreviation)

\* strings.Index finds a header as a text: a longer title will do, too.
IsHeader(line, header) ==
  /\ line.kind = header.kind
  /\ line.title = header.title \/ <<header.title, line.title>> \in Begins

\* Mutant: a section reaches to the end of the text.
ExtructSectionToEnd(text, header) ==
  LET first == SelectInSeq(text, LAMBDA line : IsHeader(line, header))
  IN IF first = 0 THEN <<>> ELSE SubSeq(text, first, Len(text))

\* The section under a header: up to the next header of the same level.
extructSection(text, header) ==
  LET first == SelectInSeq(text, LAMBDA line : IsHeader(line, header))
      next == SelectInSubSeq(text, first + 1, Len(text),
                             LAMBDA line : line.kind = header.kind)
  IN CASE first = 0 -> <<>>
       [] first # 0 /\ next = 0 -> SubSeq(text, first, Len(text))
       [] OTHER -> SubSeq(text, first, next - 1)

-----------------------------------------------------------------------------
(* Flush.                                                                   *)

\* strings.ReplaceAll, of a section that occurs at most once.
Replace(text, old, new) ==
  LET at == {k \in DOMAIN text : IsPrefix(old, SubSeq(text, k, Len(text)))}
  IN IF at = {} THEN text
     ELSE ReplaceSubSeqAt(CHOOSE k \in at : TRUE, new, old, text)

Body(t) == [i \in 1 .. LengthOf[t] |-> Line("text", t)]

Trimmed(n, t) ==
  IF SizeLimit[n] = NoLimit THEN Body(t)
  ELSE triming(Body(t), SizeLimit[n], <<Line("text", Ellipsis)>>)

\* Mutant: a section is added even if there is one.
PutAppends(sections, n) ==
  [full |-> sections.full \o <<Section(n)>> \o Body(texts[n]),
   memo |-> sections.memo \o <<Section(n)>> \o Trimmed(n, texts[n])]

\* One round of the loop over memoSectionNames.
Put(sections, n) ==
  LET extracted == extructSection(sections.full, Section(n))
      full == <<Section(n)>> \o Body(texts[n])
      trimmed == <<Section(n)>> \o Trimmed(n, texts[n])
  IN IF extracted = <<>>
       THEN [full |-> sections.full \o full, memo |-> sections.memo \o trimmed]
       ELSE [full |-> Replace(sections.full, extracted, full),
             memo |-> Replace(sections.memo, extracted, trimmed)]

\* The section without its header and its link.
Inner(section) ==
  CASE section = <<>> -> <<>>
    [] Len(section) > 1 /\ section[2].kind = "url" -> SubSeq(section, 3, Len(section))
    [] OTHER -> Tail(section)

\* The full text, and the sections as the memo gets them.
Sections(old) ==
  LET round[i \in 0 .. Len(names)] ==
        IF i = 0 THEN [full |-> Inner(old), memo |-> Inner(old)]
        ELSE Put(round[i - 1], names[i])
  IN round[Len(names)]

\* Mutant: the link is written whether or not there is something to link to.
NewSectionLinks(old, d) ==
  <<Header, Line("url", d)>> \o Sections(old).memo

\* The section with what this execution has rendered, the full text being at d.
\* Without a link there is nothing but the memo, and max_size does not apply.
NewSection(old, d) ==
  <<Header>> \o (IF d = NoDir THEN Sections(old).full
                 ELSE <<Line("url", d)>> \o Sections(old).memo)

\* The section is replaced in the memo, or added to it.
WholeMemo(m, d) ==
  LET old == extructSection(m, Header)
      new == NewSection(old, d)
  IN IF old = <<>> THEN m \o new ELSE Replace(m, old, new)

\* What stands behind the section keeps the newline at its end; the section does not.
Trailing(m, e) ==
  LET old == extructSection(m, Header)
  IN IF e /\ old # <<>> /\ ~ IsSuffix(old, m) THEN 1 ELSE 0

\* The whole is cut if it is too long, before it gets its newline.  (m, e): the memo,
\* and whether it ends with a newline.
NewMemo(m, e, d) ==
  LET whole == WholeMemo(m, d)
  IN IF Len(whole) + Trailing(m, e) <= Limit THEN whole
     ELSE Abbreviated(whole, Limit, <<Line("text", Ellipsis)>>)

\* Where the memo's link leads, NoDir if it has none.
LinkOf(m) ==
  LET section == extructSection(m, Header) IN
  IF Len(section) > 1 /\ section[2].kind = "url" THEN section[2].title ELSE NoDir

\* Executions begin once the configuration was loaded.
Loaded == step = "done" /\ ~diags

\* Another execution: a fresh updater, and its rules are rendered.
Execute(order, t) ==
  /\ Loaded
  /\ stage \in {"idle", "flushed", "failed"}
  /\ names' = order
  /\ texts' = [n \in Names |-> IF Contains(order, n) THEN t[n] ELSE NoText]
  /\ stage' = "rendered"
  /\ dir' = NoDir
  /\ UNCHANGED <<setupVars, memo, newline, docs, ahead>>

\* Another query of the same execution was successful, whatever became of the flush
\* for the last one.
ExecuteAgain(t) ==
  /\ stage \in {"flushed", "failed"}
  /\ Len(names) < MaxRounds * Cardinality(ToSet(names))
  /\ names' = names \o SubSeq(names, 1, Cardinality(ToSet(names)))
  /\ texts' = [n \in Names |-> IF Contains(names, n) THEN t[n] ELSE NoText]
  /\ stage' = "rendered"
  /\ dir' = NoDir
  /\ UNCHANGED <<setupVars, memo, newline, docs, ahead>>

\* Mutant: what is uploaded is what the memo will show.
UploadTrimmed(d) ==
  /\ stage = "rendered"
  /\ backend # Discard
  /\ docs' = [docs EXCEPT ![d] = Sections(extructSection(memo, Header)).memo]
  /\ dir' = d
  /\ ahead' = IF d = LinkOf(memo) THEN ToSet(names) ELSE ahead
  /\ stage' = "uploaded"
  /\ UNCHANGED <<setupVars, memo, newline, names, texts>>

\* S3Backend.Upload: the template is evaluated for the key and for the link.
Upload(d) ==
  /\ stage = "rendered"
  /\ backend # Discard
  /\ docs' = [docs EXCEPT ![d] = Sections(extructSection(memo, Header)).full]
  /\ dir' = d
  /\ ahead' = IF d = LinkOf(memo) THEN ToSet(names) ELSE ahead
  /\ stage' = "uploaded"
  /\ UNCHANGED <<setupVars, memo, newline, names, texts>>

\* DiscardBackend.Upload.
Keep ==
  /\ stage = "rendered"
  /\ backend = Discard
  /\ stage' = "uploaded"
  /\ UNCHANGED <<setupVars, memo, newline, docs, names, texts, dir, ahead>>

\* The template has no string for a value, or S3 does not take the object; or
\* Mackerel does not take the memo; or the process dies.
FlushFails ==
  /\ stage \in {"rendered", "uploaded"}
  /\ stage' = "failed"
  /\ dir' = NoDir
  /\ UNCHANGED <<setupVars, memo, newline, docs, names, texts, ahead>>

\* UpdateAlertMemo.
Update ==
  /\ stage = "uploaded"
  /\ memo' = NewMemo(memo, newline, dir)
  /\ newline' = TRUE
  /\ ahead' = {}
  /\ stage' = "flushed"
  /\ UNCHANGED <<setupVars, docs, names, texts, dir>>

-----------------------------------------------------------------------------
(* People, in Mackerel's console.                                           *)

\* A text that ends with a newline, or not, and that Mackerel takes.
Write(text, e) ==
  /\ Loaded
  /\ stage \in {"idle", "flushed", "failed"}
  /\ Len(text) + (IF e THEN 1 ELSE 0) <= Limit
  /\ memo' = text
  /\ newline' = e
  /\ UNCHANGED <<setupVars, docs, names, texts, stage, dir, ahead>>

\* On top of everything, with or without a heading.
WriteAbove(n) ==
  /\ ~ Contains(memo, Note(n))
  /\ \/ Write(<<Note(n)>> \o memo, newline)
     \/ Write(<<OtherHeader, Note(n)>> \o memo, newline)

\* Below prepalert's section, under a heading of their own.
WriteBelow(n) ==
  /\ ~ Contains(memo, Note(n))
  /\ Contains(memo, Header)
  /\ \E e \in BOOLEAN : Write(memo \o <<OtherHeader, Note(n)>>, e)

\* RunCLI gives up: see LoadConfig.
Refused == diags /\ step \in {"done", "unavailable"} /\ UNCHANGED vars

Next ==
  \/ SetupStep /\ UNCHANGED memoVars
  \/ \E order \in Orders : \E t \in [ToSet(order) -> Texts] : Execute(order, t)
  \/ \E t \in [ToSet(names) -> Texts] : ExecuteAgain(t)
  \/ \E d \in Dirs : Upload(d)
  \/ Keep
  \/ FlushFails
  \/ Update
  \/ \E n \in Notes : WriteAbove(n) \/ WriteBelow(n)
  \/ Refused

Spec == Init /\ [][Next]_vars

-----------------------------------------------------------------------------
(* Properties.                                                              *)

\* What the section of n tells: the lines up to the next header.
Told(text, n) ==
  LET first == SelectInSeq(text, LAMBDA line : line = Section(n))
      next == SelectInSubSeq(text, first + 1, Len(text), LAMBDA line : line.kind \in {"##", "###"})
  IN IF first = 0 THEN <<>>
     ELSE SubSeq(text, first + 1, IF next = 0 THEN Len(text) ELSE next - 1)

\* What the memo is to tell of a rule that has a text.
Due(n) == IF backend = Discard THEN Body(texts[n]) ELSE Trimmed(n, texts[n])

\* Where people write: before the section, and from the next heading after it.
Above ==
  LET first == SelectInSeq(memo, LAMBDA line : line = Header)
  IN IF first = 0 THEN memo ELSE SubSeq(memo, 1, first - 1)

Below ==
  LET first == SelectInSeq(memo, LAMBDA line : line = Header)
      next == SelectInSubSeq(memo, first + 1, Len(memo), LAMBDA line : line.kind = "##")
  IN IF first = 0 \/ next = 0 THEN <<>> ELSE SubSeq(memo, next, Len(memo))

\* To its readers the memo is a board: a flush replaces what its rules reported,
\* and leaves alone the other rules' sections and all that people wrote, unless the
\* memo is full; then nothing above the section is lost.
Board == INSTANCE AlertBoard WITH
  above <- Above,
  shown <- [n \in Names |-> Told(memo, n)],
  below <- Below,
  due <- [n \in {m \in Names : texts[m] # NoText} |-> Due(n)],
  used <- Len(memo)

BoardSpec == Board!Spec

WasCut(text) == Len(text) = Limit /\ text[Limit] = Line("text", Ellipsis)

\* Behind the link of the memo is the whole text of what was just reported, and all
\* that the memo tells of other rules; a flush that failed halfway may have left the
\* document ahead of the memo, and of a memo that was cut the beginning is known.
LinkCovers ==
  /\ stage = "flushed" /\ dir # NoDir =>
       \A n \in ToSet(names) : Told(docs[dir], n) = Body(texts[n])
  /\ LinkOf(memo) # NoDir /\ ~ WasCut(memo) =>
       \A n \in Names \ ahead : Contains(memo, Section(n)) =>
         LET full == Told(docs[LinkOf(memo)], n) IN
         \/ Told(memo, n) = full
         \/ SizeLimit[n] # NoLimit
              /\ Told(memo, n) = triming(full, SizeLimit[n], <<Line("text", Ellipsis)>>)

\* A message that comes again, or a query more, changes nothing if nothing new was
\* rendered: a flush of the same texts leaves the same memo.  (A memo that is only a
\* newline too long, the one behind what people wrote below, is cut.)
FlushIsIdempotent ==
  stage = "flushed" /\ ~ WasCut(memo) /\ Len(memo) + Trailing(memo, newline) <= Limit =>
    NewMemo(memo, newline, dir) = memo

\* A memo that is too long is not worn away either: once it has its newline, what the
\* next flush of the same texts makes of it, all later ones leave.
FullMemoSettles ==
  stage = "flushed" /\ newline =>
    LET again == NewMemo(memo, TRUE, dir) IN NewMemo(again, TRUE, dir) = again

\* After a flush every rule that was executed shows what it rendered.
RenderedIsShown ==
  stage = "flushed" /\ ~ WasCut(memo) =>
    \A n \in ToSet(names) : Told(memo, n) = Due(n)

=============================================================================
