------------------------- MODULE MemoDocumentProofs -------------------------
(***************************************************************************)
(* Theorems about the set up of the backend and about the memo through the     *)
(* flushes.  Those of the set up hold for every set of s3_backend blocks and in *)
(* whatever order the attributes are decoded; those of the memo for every text,  *)
(* size, number of rules and order of flushes, and for whatever people write     *)
(* around the section.  Most suppose that no name of a rule begins another one: *)
(* MemoDocument_prefix shows what becomes of the memo if one does.            *)
(***************************************************************************)
EXTENDS MemoDocument, Induction, FiniteSetTheorems, SequenceTheorems

-----------------------------------------------------------------------------
(* The inductive invariant.                                                 *)

Good(a) == a = "object_key_template" \/ block[a] = "right"

Present == {a \in Attributes : block[a] # "absent"}

Decoded == Present \ todo

\* What diags and the pointers say of the attributes that were decoded.  The URL
\* is the only one of which an error elsewhere may keep the pointer from being set.
Loop ==
  /\ block \in Blocks
  /\ Required \subseteq Present
  /\ todo \subseteq Present
  /\ backend = Discard
  /\ diags <=> \E a \in Decoded : ~ Good(a)
  /\ \A a \in Pointers \ {"viewer_base_url"} : a \in set <=> a \in Decoded
  /\ "viewer_base_url" \in set => "viewer_base_url" \in Decoded
  /\ ~diags /\ "viewer_base_url" \in Decoded => "viewer_base_url" \in set

Whole(b) ==
  /\ {"object_key_prefix", "object_key_template", "viewer_base_url"} \subseteq b
  /\ Google \subseteq b \/ Google \cap b = {}

SetupIInv ==
  /\ SetupTypeOK
  /\ step \in {"client", "content"} =>
       block \in Blocks /\ ~diags /\ set = {} /\ backend = Discard
  /\ step = "attributes" => Loop
  /\ step = "checks" => Loop /\ todo = {}
  /\ step = "viewer" =>
       block \in Blocks /\ ~diags /\ backend = Discard /\ Whole(set) /\ Sound(block)
  /\ step = "done" /\ block # NoBlock =>
       \/ backend # Discard /\ ~diags /\ Sound(block)
       \/ backend = Discard /\ diags /\ ~ Sound(block)
  /\ step = "unavailable" => backend = Discard /\ diags
  /\ backend # Discard => Whole(backend)

-----------------------------------------------------------------------------
(* What MemoDocument does with a backend does not change it.                 *)

LEMMA Projection == [Next]_vars => [SetupStep]_setupVars
<1> SUFFICES ASSUME [Next]_vars PROVE [SetupStep]_setupVars
  OBVIOUS
<1>1. CASE SetupStep /\ UNCHANGED memoVars
  BY <1>1
<1>2. CASE \E order \in Orders : \E t \in [ToSet(order) -> Texts] : Execute(order, t)
  BY <1>2 DEF Execute
<1>3. CASE \E t \in [ToSet(names) -> Texts] : ExecuteAgain(t)
  BY <1>3 DEF ExecuteAgain
<1>4. CASE \E d \in Dirs : Upload(d)
  BY <1>4 DEF Upload
<1>5. CASE Keep
  BY <1>5 DEF Keep
<1>6. CASE FlushFails
  BY <1>6 DEF FlushFails
<1>7. CASE Update
  BY <1>7 DEF Update
<1>8. CASE \E n \in Notes : WriteAbove(n) \/ WriteBelow(n)
  BY <1>8 DEF WriteAbove, WriteBelow, Write
<1>9. CASE Refused
  BY <1>9 DEF Refused, vars
<1>10. CASE UNCHANGED vars
  BY <1>10 DEF vars
<1> QED
  BY <1>1, <1>2, <1>3, <1>4, <1>5, <1>6, <1>7, <1>8, <1>9, <1>10 DEF Next

LEMMA InitIsSetupInit == Init => SetupInit
BY DEF Init

-----------------------------------------------------------------------------
(* The steps of the set up.                                                 *)

LEMMA SetupBegins == SetupInit => SetupIInv
<1> SUFFICES ASSUME SetupInit PROVE SetupIInv
  OBVIOUS
<1>1. SetupTypeOK
  BY DEF SetupInit, SetupTypeOK
<1>2. CASE block \in Blocks /\ step = "client"
  BY <1>1, <1>2 DEF SetupInit, SetupIInv
<1>3. CASE block = NoBlock /\ step = "done"
  BY <1>1, <1>3 DEF SetupInit, SetupIInv
<1> QED
  BY <1>2, <1>3 DEF SetupInit

LEMMA NewClientKeeps == SetupIInv /\ NewClient => SetupIInv'
<1> SUFFICES ASSUME SetupIInv, NewClient PROVE SetupIInv'
  OBVIOUS
<1>1. CASE step' = "content"
  BY <1>1 DEF SetupIInv, SetupTypeOK, NewClient, ReturnError
<1>2. CASE step' = "unavailable"
  BY <1>2 DEF SetupIInv, SetupTypeOK, NewClient, ReturnError
<1> QED
  BY <1>1, <1>2 DEF NewClient, ReturnError

LEMMA ContentKeeps == SetupIInv /\ Content => SetupIInv'
<1> SUFFICES ASSUME SetupIInv, Content PROVE SetupIInv'
  OBVIOUS
<1>1. block \in [Attributes -> {"absent", "right", "wrong", "malformed"}]
  BY BlocksAssumption DEF SetupIInv, Content
<1>2. CASE \E a \in Required : block[a] = "absent"
  <2>1. ~ Sound(block)
    BY <1>2 DEF Sound
  <2> QED
    BY <1>2, <2>1 DEF SetupIInv, SetupTypeOK, Content, ReturnError, Sound
<1>3. CASE ~ \E a \in Required : block[a] = "absent"
  <2>1. Loop'
    BY <1>1, <1>3 DEF SetupIInv, Content, Loop, Present, Decoded, Good, Required,
       Attributes, Google, Pointers
  <2> QED
    BY <1>3, <2>1 DEF SetupIInv, SetupTypeOK, Content
<1> QED
  BY <1>2, <1>3

LEMMA DecodeAttributeKeeps ==
  ASSUME NEW a \in Attributes, SetupIInv, DecodeAttribute(a)
  PROVE  SetupIInv'
<1>1. /\ step = "attributes" /\ step' = "attributes" /\ Loop
      /\ a \in todo /\ todo' = todo \ {a}
      /\ UNCHANGED <<block, backend>>
  BY DEF SetupIInv, DecodeAttribute
<1>2. /\ block[a] \in {"right", "wrong", "malformed"}
      /\ a = "object_key_template" => block[a] # "malformed"
  BY <1>1, BlocksAssumption DEF Loop, Present
<1>3. diags' <=> diags \/ ~ Good(a)
  BY <1>2 DEF DecodeAttribute, Decodes, Good
<1>4. Decoded' = Decoded \cup {a} /\ Present' = Present /\ a \notin Decoded
  BY <1>1 DEF Decoded, Present, Loop
<1>5. \A c \in Attributes : Good(c)' <=> Good(c)
  BY <1>1 DEF Good
<1>6. diags' <=> \E c \in Decoded' : ~ Good(c)'
  BY <1>1, <1>3, <1>4, <1>5 DEF Loop, Decoded, Present
<1>7. set' = IF a = "viewer_base_url" THEN (IF diags' THEN set ELSE set \cup {a})
             ELSE set \cup ({a} \cap Pointers)
  BY DEF DecodeAttribute
<1>8. Loop'
  BY <1>1, <1>3, <1>4, <1>6, <1>7 DEF Loop
<1>9. SetupTypeOK'
  <2>1. set' \subseteq Pointers
    BY <1>7 DEF SetupIInv, SetupTypeOK, Pointers
  <2>2. diags' \in BOOLEAN
    BY DEF DecodeAttribute, SetupIInv, SetupTypeOK
  <2> QED
    BY <1>1, <2>1, <2>2 DEF SetupIInv, SetupTypeOK
<1> QED
  BY <1>1, <1>8, <1>9 DEF SetupIInv, Loop

LEMMA EndOfLoopKeeps == SetupIInv /\ EndOfLoop => SetupIInv'
BY DEF SetupIInv, SetupTypeOK, EndOfLoop, Loop, Decoded, Present, Good, Whole

LEMMA CheckKeeps == SetupIInv /\ Check => SetupIInv'
<1> SUFFICES ASSUME SetupIInv, Check PROVE SetupIInv'
  OBVIOUS
<1>1. /\ step = "checks" /\ Loop /\ todo = {}
      /\ UNCHANGED <<block, todo, backend>>
  BY DEF SetupIInv, Check
<1>2. block \in [Attributes -> {"absent", "right", "wrong", "malformed"}]
  BY <1>1, BlocksAssumption DEF Loop
<1>3. Decoded = Present
  BY <1>1 DEF Decoded
<1>4. \A a \in Google : a \in set <=> block[a] # "absent"
  BY <1>1, <1>3 DEF Loop, Present, Google, Pointers, Attributes
<1>5. diags' <=> ~ Sound(block)
  <2>1. CASE diags
    <3>1. PICK a \in Present : ~ Good(a)
      BY <1>1, <1>3, <2>1 DEF Loop
    <3> QED
      BY <1>2, <2>1, <3>1 DEF Present, Good, Sound, Check
  <2>2. CASE ~diags
    <3>1. \A a \in Present : Good(a)
      BY <1>1, <1>3, <2>2 DEF Loop
    <3>2. "viewer_base_url" \in set
      BY <1>1, <1>3, <2>2 DEF Loop, Required
    <3>3. \A a \in Required : block[a] = "right"
      BY <1>1, <3>1 DEF Loop, Good, Required
    <3>4. \A a \in Attributes \ {"object_key_template"} : block[a] \in {"right", "absent"}
      BY <3>1 DEF Good, Present
    <3>5. diags' <=> Google \cap set # {} /\ ~ (Google \subseteq set)
      BY <2>2, <3>2 DEF Check
    <3>6. (\A a, c \in Google : block[a] = "absent" <=> block[c] = "absent")
            <=> (Google \cap set = {} \/ Google \subseteq set)
      BY <1>4
    <3> QED
      BY <3>3, <3>4, <3>5, <3>6 DEF Sound
  <2> QED
    BY <2>1, <2>2 DEF SetupIInv, SetupTypeOK
<1>6. ~diags' => Whole(set')
  <2>1. Google \cap set' = Google \cap set /\ "object_key_prefix" \in set' /\ "object_key_template" \in set'
    BY DEF Check, Google
  <2> QED
    BY <2>1 DEF Check, Whole
<1>7. SetupTypeOK'
  <2>1. step' \in {"done", "viewer"}
    BY DEF Check
  <2>2. set' \subseteq Pointers
    BY DEF Check, SetupIInv, SetupTypeOK, Pointers
  <2>3. diags' \in BOOLEAN
    BY DEF Check, SetupIInv, SetupTypeOK
  <2> QED
    BY <1>1, <2>1, <2>2, <2>3 DEF SetupIInv, SetupTypeOK
<1>8. step' = IF diags' THEN "done" ELSE "viewer"
  BY DEF Check
<1>9. Sound(block)' <=> Sound(block)
  BY <1>1 DEF Sound
<1> QED
  BY <1>1, <1>5, <1>6, <1>7, <1>8, <1>9 DEF SetupIInv, Loop

LEMMA NewViewerKeeps == SetupIInv /\ NewViewer => SetupIInv'
<1> SUFFICES ASSUME SetupIInv, NewViewer PROVE SetupIInv'
  OBVIOUS
<1>1. Sound(block)' <=> Sound(block)
  BY DEF NewViewer, ReturnError, Sound
<1>2. set # Discard
  BY DiscardAssumption DEF SetupIInv, SetupTypeOK
<1>3. CASE step' = "done"
  BY <1>1, <1>2, <1>3 DEF SetupIInv, SetupTypeOK, NewViewer, ReturnError, Whole
<1>4. CASE step' = "unavailable"
  BY <1>4 DEF SetupIInv, SetupTypeOK, NewViewer, ReturnError
<1> QED
  BY <1>3, <1>4 DEF NewViewer, ReturnError

LEMMA SetupKeeps == SetupIInv /\ [SetupStep]_setupVars => SetupIInv'
<1> SUFFICES ASSUME SetupIInv, [SetupStep]_setupVars PROVE SetupIInv'
  OBVIOUS
<1>1. CASE UNCHANGED setupVars
  BY <1>1 DEF setupVars, SetupIInv, SetupTypeOK, Loop, Decoded, Present, Good, Whole, Sound
<1>2. CASE SetupStep
  BY <1>2, NewClientKeeps, ContentKeeps, DecodeAttributeKeeps, EndOfLoopKeeps, CheckKeeps,
     NewViewerKeeps DEF SetupStep
<1> QED
  BY <1>1, <1>2

LEMMA SetupInvariance == Spec => []SetupIInv
<1>1. Init => SetupIInv
  BY InitIsSetupInit, SetupBegins
<1>2. SetupIInv /\ [Next]_vars => SetupIInv'
  BY Projection, SetupKeeps
<1> QED
  BY <1>1, <1>2, PTL DEF Spec

-----------------------------------------------------------------------------
(* The theorems.                                                            *)

\* A backend that executions upload to has a prefix, a template and a URL, and
\* all of Google's values or none, for every block and every order of decoding.
THEOREM BackendIsWhole == Spec => []InstalledIsWhole
<1>1. SetupIInv => InstalledIsWhole
  BY DEF SetupIInv, Whole, InstalledIsWhole, EnableGoogleAuth
<1> QED
  BY <1>1, SetupInvariance, PTL

\* Whether a block is accepted does not depend on the order in which its
\* attributes were decoded: it is what a reader of the block would say.
THEOREM RefusalIsExact == Spec => []SetupIsExact
<1>1. SetupIInv => SetupIsExact
  BY DEF SetupIInv, SetupIsExact
<1> QED
  BY <1>1, SetupInvariance, PTL

-----------------------------------------------------------------------------
(* Texts.  The section under a header reaches from the first line that is one  *)
(* to the last before the next header; a section's text is told up to there.  *)

\* The lines from first + 1 to last are of none of the kinds, and the next one is.
Reaches(text, kinds, first, last) ==
  /\ first \in 1 .. Len(text) /\ last \in first .. Len(text)
  /\ \A i \in first + 1 .. last : text[i].kind \notin kinds
  /\ last = Len(text) \/ text[last + 1].kind \in kinds

\* From every line there is a reach.
LEMMA ReachOfLine ==
  ASSUME NEW S, NEW text \in Seq(S), NEW kinds, NEW first \in 1 .. Len(text)
  PROVE  \E last \in first .. Len(text) : Reaches(text, kinds, first, last)
<1> DEFINE T == {i \in first + 1 .. Len(text) : text[i].kind \in kinds}
<1>1. CASE T = {}
  <2>1. Reaches(text, kinds, first, Len(text))
    BY <1>1 DEF Reaches
  <2> QED
    BY <2>1
<1>2. CASE T # {}
  <2>1. PICK next \in T : \A i \in T : next <= i
    <3>1. T \subseteq Nat
      OBVIOUS
    <3> HIDE DEF T
    <3> QED
      BY <1>2, <3>1, LeastNumber
  <2>2. Reaches(text, kinds, first, next - 1)
    BY <2>1 DEF Reaches
  <2> QED
    BY <2>1, <2>2
<1> QED
  BY <1>1, <1>2

\* It is the only one.
LEMMA ReachIsOne ==
  ASSUME NEW text, Len(text) \in Nat, NEW kinds, NEW first, NEW last, NEW end,
         Reaches(text, kinds, first, last), Reaches(text, kinds, first, end)
  PROVE  last = end
<1>1. last \in Nat /\ end \in Nat /\ first \in Nat
  BY DEF Reaches
<1>2. ~ (last < end)
  BY <1>1 DEF Reaches
<1>3. ~ (end < last)
  BY <1>1 DEF Reaches
<1> QED
  BY <1>1, <1>2, <1>3

\* What extructSection finds.
LEMMA ExtructedSection ==
  ASSUME NEW S, NEW text \in Seq(S), NEW header, NEW first, NEW last,
         Reaches(text, {header.kind}, first, last),
         IsHeader(text[first], header), \A i \in 1 .. first - 1 : ~ IsHeader(text[i], header)
  PROVE  extructSection(text, header) = SubSeq(text, first, last)
<1> DEFINE I == {i \in 1 .. Len(text) : IsHeader(text[i], header)}
           f == IF I # {} THEN Min(I) ELSE 0
           J(k) == {i \in k + 1 .. Len(text) : text[i].kind = header.kind}
           g(k) == IF J(k) # {} THEN Min(J(k)) ELSE 0
<1>1. first \in 1 .. Len(text) /\ last \in first .. Len(text)
  BY DEF Reaches
<1>2. f = first
  <2>1. I \subseteq Nat /\ first \in I /\ \A i \in I : first <= i
    BY <1>1
  <2> HIDE DEF I
  <2> QED
    BY <2>1, MinIs
<1>3. extructSection(text, header) =
        CASE f = 0 -> <<>>
          [] f # 0 /\ g(f) = 0 -> SubSeq(text, f, Len(text))
          [] OTHER -> SubSeq(text, f, g(f) - 1)
  BY DEF extructSection, SelectInSeq, SelectInSubSeq
<1> HIDE DEF f
<1>4. CASE last = Len(text)
  <2>1. J(first) = {}
    BY <1>1, <1>4 DEF Reaches
  <2>2. g(first) = 0
    BY <2>1
  <2> HIDE DEF g
  <2> QED
    BY <1>1, <1>2, <1>3, <1>4, <2>2
<1>5. CASE last # Len(text)
  <2>1. J(first) \subseteq Nat /\ last + 1 \in J(first) /\ \A i \in J(first) : last + 1 <= i
    BY <1>1, <1>5 DEF Reaches
  <2>2. g(first) = last + 1
    <3> HIDE DEF J
    <3> QED
      BY <2>1, MinIs
  <2> HIDE DEF g
  <2> QED
    BY <1>1, <1>2, <1>3, <2>2
<1> QED
  BY <1>4, <1>5

LEMMA ExtructedNothing ==
  ASSUME NEW text, NEW header, \A i \in 1 .. Len(text) : ~ IsHeader(text[i], header)
  PROVE  extructSection(text, header) = <<>>
<1> DEFINE I == {i \in 1 .. Len(text) : IsHeader(text[i], header)}
<1>1. SelectInSeq(text, LAMBDA line : IsHeader(line, header)) = IF I # {} THEN Min(I) ELSE 0
  BY DEF SelectInSeq
<1>2. SelectInSeq(text, LAMBDA line : IsHeader(line, header)) = 0
  BY <1>1
<1> QED
  BY <1>2 DEF extructSection

\* What is told.
LEMMA ToldLines ==
  ASSUME NEW S, NEW text \in Seq(S), NEW n, NEW first, NEW last,
         Reaches(text, {"##", "###"}, first, last),
         text[first] = Section(n), \A i \in 1 .. first - 1 : text[i] # Section(n)
  PROVE  Told(text, n) = SubSeq(text, first + 1, last)
<1> DEFINE I == {i \in 1 .. Len(text) : text[i] = Section(n)}
           f == IF I # {} THEN Min(I) ELSE 0
           J(k) == {i \in k + 1 .. Len(text) : text[i].kind \in {"##", "###"}}
           g(k) == IF J(k) # {} THEN Min(J(k)) ELSE 0
<1>1. first \in 1 .. Len(text) /\ last \in first .. Len(text)
  BY DEF Reaches
<1>2. f = first
  <2>1. I \subseteq Nat /\ first \in I /\ \A i \in I : first <= i
    BY <1>1
  <2> HIDE DEF I
  <2> QED
    BY <2>1, MinIs
<1>3. Told(text, n) =
        IF f = 0 THEN <<>>
        ELSE SubSeq(text, f + 1, IF g(f) = 0 THEN Len(text) ELSE g(f) - 1)
  BY DEF Told, SelectInSeq, SelectInSubSeq
<1> HIDE DEF f
<1>4. CASE last = Len(text)
  <2>1. J(first) = {}
    BY <1>1, <1>4 DEF Reaches
  <2>2. g(first) = 0
    BY <2>1
  <2> HIDE DEF g
  <2> QED
    BY <1>1, <1>2, <1>3, <1>4, <2>2
<1>5. CASE last # Len(text)
  <2>1. J(first) \subseteq Nat /\ last + 1 \in J(first) /\ \A i \in J(first) : last + 1 <= i
    BY <1>1, <1>5 DEF Reaches
  <2>2. g(first) = last + 1
    <3> HIDE DEF J
    <3> QED
      BY <2>1, MinIs
  <2> HIDE DEF g
  <2> QED
    BY <1>1, <1>2, <1>3, <2>2
<1> QED
  BY <1>4, <1>5

LEMMA ToldNothing ==
  ASSUME NEW text, NEW n, \A i \in 1 .. Len(text) : text[i] # Section(n)
  PROVE  Told(text, n) = <<>>
<1> DEFINE I == {i \in 1 .. Len(text) : text[i] = Section(n)}
<1>1. SelectInSeq(text, LAMBDA line : line = Section(n)) = IF I # {} THEN Min(I) ELSE 0
  BY DEF SelectInSeq
<1>2. SelectInSeq(text, LAMBDA line : line = Section(n)) = 0
  BY <1>1
<1> QED
  BY <1>2 DEF Told

-----------------------------------------------------------------------------
(* The types of what a flush computes.                                      *)

LEMMA LineTypes ==
  /\ Header \in Lines /\ OtherHeader \in Lines
  /\ \A n \in Names : Section(n) \in Lines
  /\ \A t \in Texts \cup Notes \cup {Ellipsis} : Line("text", t) \in Lines
  /\ \A d \in Dirs : Line("url", d) \in Lines
BY DEF Lines

\* What was abbreviated keeps to the limit.
LEMMA Abbreviating ==
  ASSUME NEW S, NEW msg \in Seq(S), NEW limit \in Nat, NEW abbreviation \in Seq(S),
         limit <= Len(msg)
  PROVE  /\ Abbreviated(msg, limit, abbreviation) \in Seq(S)
         /\ Len(Abbreviated(msg, limit, abbreviation)) <= limit
<1> DEFINE n == Len(abbreviation)
           t == Abbreviated(msg, limit, abbreviation)
<1>1. n \in Nat /\ Len(msg) \in Nat
  OBVIOUS
<1>2. CASE n >= limit
  <2>1. t = SubSeq(abbreviation, 1, limit)
    BY <1>2 DEF Abbreviated
  <2>2. \A i \in 1 .. limit : abbreviation[i] \in S
    BY <1>1, <1>2
  <2> HIDE DEF t
  <2>3. t \in Seq(S) /\ Len(t) = IF 1 <= limit THEN (limit - 1) + 1 ELSE 0
    BY <2>1, <2>2, SubSeqProperties, 1 \in Int, limit \in Int
  <2> QED
    BY <2>3 DEF t
<1>3. CASE n < limit
  <2>1. t = SubSeq(msg, 1, limit - n) \o abbreviation
    BY <1>1, <1>3 DEF Abbreviated
  <2>2. \A i \in 1 .. limit - n : msg[i] \in S
    BY <1>1, <1>3
  <2>3. SubSeq(msg, 1, limit - n) \in Seq(S) /\ Len(SubSeq(msg, 1, limit - n)) = limit - n
    BY <1>1, <1>3, <2>2, SubSeqProperties, 1 \in Int, limit - n \in Int
  <2> HIDE DEF t
  <2>4. t \in Seq(S) /\ Len(t) = Len(SubSeq(msg, 1, limit - n)) + n
    BY <2>1, <2>3, ConcatProperties
  <2> QED
    BY <1>1, <2>3, <2>4 DEF t
<1> QED
  BY <1>1, <1>2, <1>3

\* triming keeps to its limit.
LEMMA Trimming ==
  ASSUME NEW S, NEW msg \in Seq(S), NEW limit \in Nat, NEW abbreviation \in Seq(S)
  PROVE  /\ triming(msg, limit, abbreviation) \in Seq(S)
         /\ Len(triming(msg, limit, abbreviation)) <= limit
<1>1. Len(msg) \in Nat
  OBVIOUS
<1>2. CASE Len(msg) <= limit
  BY <1>2 DEF triming
<1>3. CASE Len(msg) > limit
  BY <1>1, <1>3, Abbreviating DEF triming
<1> QED
  BY <1>1, <1>2, <1>3

\* A part of a text is a text.
LEMMA Part ==
  ASSUME NEW S, NEW text \in Seq(S), NEW first \in 1 .. Len(text) + 1, NEW last \in 0 .. Len(text)
  PROVE  /\ SubSeq(text, first, last) \in Seq(S)
         /\ Len(SubSeq(text, first, last)) = IF first <= last THEN (last - first) + 1 ELSE 0
         /\ \A i \in 1 .. (last - first) + 1 : SubSeq(text, first, last)[i] = text[(first + i) - 1]
<1>1. first \in Int /\ last \in Int /\ \A i \in first .. last : text[i] \in S
  OBVIOUS
<1>2. /\ SubSeq(text, first, last) \in Seq(S)
      /\ Len(SubSeq(text, first, last)) = IF first <= last THEN (last - first) + 1 ELSE 0
      /\ \A i \in 1 .. (last - first) + 1 : SubSeq(text, first, last)[i] = text[(first + i) - 1]
  BY <1>1, SubSeqProperties
<1> QED
  BY <1>2

\* A header is found, with its reach, or it is not there.
LEMMA ExtructCases ==
  ASSUME NEW S, NEW text \in Seq(S), NEW header
  PROVE  \/ /\ \A i \in 1 .. Len(text) : ~ IsHeader(text[i], header)
            /\ extructSection(text, header) = <<>>
         \/ \E first \in 1 .. Len(text) : \E last \in first .. Len(text) :
              /\ Reaches(text, {header.kind}, first, last)
              /\ IsHeader(text[first], header)
              /\ \A i \in 1 .. first - 1 : ~ IsHeader(text[i], header)
              /\ extructSection(text, header) = SubSeq(text, first, last)
<1> DEFINE I == {i \in 1 .. Len(text) : IsHeader(text[i], header)}
<1>1. CASE I = {}
  BY <1>1, ExtructedNothing
<1>2. CASE I # {}
  <2>1. I \subseteq Nat
    OBVIOUS
  <2>2. PICK first \in I : \A i \in I : first <= i
    <3> HIDE DEF I
    <3> QED
      BY <1>2, <2>1, LeastNumber
  <2>3. first \in 1 .. Len(text) /\ IsHeader(text[first], header)
    BY <2>2
  <2>4. \A i \in 1 .. first - 1 : ~ IsHeader(text[i], header)
    BY <2>2, <2>3
  <2>5. PICK last \in first .. Len(text) : Reaches(text, {header.kind}, first, last)
    BY <2>3, ReachOfLine
  <2>6. extructSection(text, header) = SubSeq(text, first, last)
    BY <2>3, <2>4, <2>5, ExtructedSection
  <2> QED
    BY <2>3, <2>4, <2>5, <2>6
<1> QED
  BY <1>1, <1>2

LEMMA ExtructType ==
  ASSUME NEW S, NEW text \in Seq(S), NEW header
  PROVE  extructSection(text, header) \in Seq(S)
<1>1. CASE extructSection(text, header) = <<>>
  BY <1>1, EmptySeq
<1>2. CASE \E first \in 1 .. Len(text) : \E last \in first .. Len(text) :
             extructSection(text, header) = SubSeq(text, first, last)
  <2>1. PICK first \in 1 .. Len(text) : \E last \in first .. Len(text) :
             extructSection(text, header) = SubSeq(text, first, last)
    BY <1>2
  <2>2. PICK last \in first .. Len(text) :
             extructSection(text, header) = SubSeq(text, first, last)
    BY <2>1
  <2>3. first \in 1 .. Len(text) + 1 /\ last \in 0 .. Len(text)
    OBVIOUS
  <2>4. SubSeq(text, first, last) \in Seq(S)
    BY <2>3, Part
  <2> QED
    BY <2>2, <2>4
<1> QED
  BY <1>1, <1>2, ExtructCases

\* Three texts, one behind the other.
LEMMA Joined ==
  ASSUME NEW S, NEW a \in Seq(S), NEW b \in Seq(S), NEW c \in Seq(S)
  PROVE  /\ (a \o b) \o c \in Seq(S)
         /\ Len((a \o b) \o c) = (Len(a) + Len(b)) + Len(c)
         /\ \A i \in 1 .. Len(a) : ((a \o b) \o c)[i] = a[i]
         /\ \A i \in 1 .. Len(b) : ((a \o b) \o c)[Len(a) + i] = b[i]
         /\ \A i \in 1 .. Len(c) : ((a \o b) \o c)[(Len(a) + Len(b)) + i] = c[i]
<1> DEFINE ab == a \o b
           abc == ab \o c
           la == Len(a)
           lb == Len(b)
           lc == Len(c)
<1>1. la \in Nat /\ lb \in Nat /\ lc \in Nat
  OBVIOUS
<1>2. ab \in Seq(S)
  BY ConcatProperties
<1>3. Len(ab) = la + lb
  BY ConcatProperties
<1>4. \A i \in 1 .. la + lb : ab[i] = IF i <= la THEN a[i] ELSE b[i - la]
  BY ConcatProperties
<1> HIDE DEF ab
<1>5. abc \in Seq(S)
  BY <1>2, ConcatProperties
<1>6. Len(abc) = Len(ab) + lc
  BY <1>2, ConcatProperties
<1>7. \A i \in 1 .. Len(ab) + lc : abc[i] = IF i <= Len(ab) THEN ab[i] ELSE c[i - Len(ab)]
  BY <1>2, ConcatProperties
<1> HIDE DEF abc, la, lb, lc
<1>8. \A i \in 1 .. la : abc[i] = a[i]
  BY <1>1, <1>3, <1>4, <1>7
<1>9. \A i \in 1 .. lb : abc[la + i] = b[i]
  <2>1. ASSUME NEW i \in 1 .. lb
        PROVE  abc[la + i] = b[i]
    <3>1. la + i \in 1 .. la + lb /\ la + i \in 1 .. Len(ab) + lc /\ ~ (la + i <= la)
            /\ (la + i) - la = i /\ la + i <= Len(ab)
      BY <1>1, <1>3
    <3> QED
      BY <1>4, <1>7, <3>1
  <2> QED
    BY <2>1
<1>10. \A i \in 1 .. lc : abc[(la + lb) + i] = c[i]
  <2>1. ASSUME NEW i \in 1 .. lc
        PROVE  abc[(la + lb) + i] = c[i]
    <3>1. (la + lb) + i \in 1 .. Len(ab) + lc /\ ~ ((la + lb) + i <= Len(ab))
            /\ ((la + lb) + i) - Len(ab) = i
      BY <1>1, <1>3
    <3> QED
      BY <1>7, <3>1
  <2> QED
    BY <2>1
<1> QED
  BY <1>3, <1>5, <1>6, <1>8, <1>9, <1>10 DEF abc, ab, la, lb, lc

\* The lines in front of a place, and from a place on.
LEMMA FirstPart ==
  ASSUME NEW S, NEW text \in Seq(S), NEW last \in 0 .. Len(text)
  PROVE  /\ SubSeq(text, 1, last) \in Seq(S)
         /\ Len(SubSeq(text, 1, last)) = last
         /\ \A i \in 1 .. last : SubSeq(text, 1, last)[i] = text[i]
<1> DEFINE p == SubSeq(text, 1, last)
<1>1. 1 \in 1 .. Len(text) + 1 /\ (last - 1) + 1 = last /\ Len(text) \in Nat
  OBVIOUS
<1>2. p \in Seq(S)
  BY <1>1, Part
<1>3. Len(p) = IF 1 <= last THEN (last - 1) + 1 ELSE 0
  BY <1>1, Part
<1>4. \A i \in 1 .. (last - 1) + 1 : p[i] = text[(1 + i) - 1]
  BY <1>1, Part
<1> HIDE DEF p
<1> QED
  BY <1>1, <1>2, <1>3, <1>4 DEF p

LEMMA LastPart ==
  ASSUME NEW S, NEW text \in Seq(S), NEW first \in 1 .. Len(text) + 1
  PROVE  /\ SubSeq(text, first, Len(text)) \in Seq(S)
         /\ Len(SubSeq(text, first, Len(text))) = (Len(text) - first) + 1
         /\ \A i \in 1 .. (Len(text) - first) + 1 :
              SubSeq(text, first, Len(text))[i] = text[(first + i) - 1]
<1> DEFINE l == Len(text)
           p == SubSeq(text, first, l)
<1>1. l \in 0 .. Len(text) /\ l \in Nat /\ first \in Nat /\ first <= l + 1
  OBVIOUS
<1>2. p \in Seq(S)
  BY <1>1, Part
<1>3. Len(p) = IF first <= l THEN (l - first) + 1 ELSE 0
  BY <1>1, Part
<1>4. \A i \in 1 .. (l - first) + 1 : p[i] = text[(first + i) - 1]
  BY <1>1, Part
<1> HIDE DEF p
<1> QED
  BY <1>1, <1>2, <1>3, <1>4 DEF p

\* r is text with new in the place of old, which begins at k.
Replaced(r, k, new, old, text) ==
  /\ Len(r) = (Len(text) - Len(old)) + Len(new)
  /\ \A i \in 1 .. k - 1 : r[i] = text[i]
  /\ \A i \in 1 .. Len(new) : r[(k - 1) + i] = new[i]
  /\ \A i \in k + Len(old) .. Len(text) : r[(i - Len(old)) + Len(new)] = text[i]

LEMMA ReplacedAt ==
  ASSUME NEW S, NEW text \in Seq(S), NEW old \in Seq(S), NEW new \in Seq(S),
         NEW k \in 1 .. Len(text), Len(old) <= (Len(text) - k) + 1,
         NEW r, r = ReplaceSubSeqAt(k, new, old, text)
  PROVE  r \in Seq(S) /\ Replaced(r, k, new, old, text)
<1> DEFINE m == k + Len(old)
           l == Len(text)
           h == k - 1
           ln == Len(new)
           a == SubSeq(text, 1, h)
           b == SubSeq(text, m, l)
<1>1. Len(old) \in Nat /\ ln \in Nat /\ l \in Nat /\ h \in 0 .. l /\ m \in 1 .. l + 1
  OBVIOUS
<1>2. a \in Seq(S) /\ Len(a) = h /\ \A i \in 1 .. h : a[i] = text[i]
  <2> HIDE DEF h
  <2> QED
    BY <1>1, FirstPart
<1>3. b \in Seq(S) /\ Len(b) = (l - m) + 1 /\ \A i \in 1 .. (l - m) + 1 : b[i] = text[(m + i) - 1]
  <2> HIDE DEF m
  <2> QED
    BY <1>1, LastPart
<1>4. a \in Seq(S) /\ b \in Seq(S)
  BY <1>2, <1>3
<1>5. r = (a \o new) \o b
  BY DEF ReplaceSubSeqAt
<1> HIDE DEF a, b
<1>6. r \in Seq(S)
  BY <1>4, <1>5, Joined
<1>7. Len(r) = (Len(a) + ln) + Len(b)
  BY <1>4, <1>5, Joined
<1>8. \A i \in 1 .. Len(a) : r[i] = a[i]
  BY <1>4, <1>5, Joined
<1>9. \A i \in 1 .. ln : r[Len(a) + i] = new[i]
  BY <1>4, <1>5, Joined
<1>10. \A i \in 1 .. Len(b) : r[(Len(a) + ln) + i] = b[i]
  BY <1>4, <1>5, Joined
<1>11. ASSUME NEW i \in m .. l
       PROVE  r[(i - Len(old)) + ln] = text[i]
  <2> DEFINE j == (i - m) + 1
  <2>1. j \in 1 .. (l - m) + 1 /\ (m + j) - 1 = i /\ (i - Len(old)) + ln = (h + ln) + j
    BY <1>1
  <2> HIDE DEF j
  <2>2. r[(h + ln) + j] = text[i]
    BY <1>2, <1>3, <1>10, <2>1
  <2> QED
    BY <2>1, <2>2
<1>12. Len(r) = (l - Len(old)) + ln
  BY <1>1, <1>2, <1>3, <1>7
<1>13. \A i \in 1 .. h : r[i] = text[i]
  BY <1>2, <1>8
<1>14. \A i \in 1 .. ln : r[h + i] = new[i]
  BY <1>2, <1>9
<1> QED
  BY <1>6, <1>11, <1>12, <1>13, <1>14 DEF Replaced

LEMMA ReplaceType ==
  ASSUME NEW S, NEW text \in Seq(S), NEW old \in Seq(S), NEW new \in Seq(S)
  PROVE  Replace(text, old, new) \in Seq(S)
<1> DEFINE at == {k \in DOMAIN text : IsPrefix(old, SubSeq(text, k, Len(text)))}
<1>1. CASE at = {}
  BY <1>1 DEF Replace
<1>2. CASE at # {}
  <2> DEFINE k == CHOOSE k \in at : TRUE
  <2>1. k \in at
    BY <1>2
  <2>2. Replace(text, old, new) = ReplaceSubSeqAt(k, new, old, text)
    BY <1>2 DEF Replace
  <2> HIDE DEF k
  <2>3. k \in 1 .. Len(text) /\ Len(old) <= Len(SubSeq(text, k, Len(text)))
    <3>1. k \in DOMAIN text /\ IsPrefix(old, SubSeq(text, k, Len(text)))
      BY <2>1
    <3>2. DOMAIN text = 1 .. Len(text)
      OBVIOUS
    <3> QED
      BY <3>1, <3>2 DEF IsPrefix
  <2>4. k \in 1 .. Len(text) + 1 /\ Len(text) \in 0 .. Len(text)
    BY <2>3
  <2>5. Len(SubSeq(text, k, Len(text))) = IF k <= Len(text) THEN (Len(text) - k) + 1 ELSE 0
    BY <2>4, Part
  <2>6. Len(old) <= (Len(text) - k) + 1
    BY <2>3, <2>5
  <2>7. ReplaceSubSeqAt(k, new, old, text) \in Seq(S)
    BY <2>3, <2>6, ReplacedAt
  <2> QED
    BY <2>2, <2>7
<1> QED
  BY <1>1, <1>2

Abbreviation == <<Line("text", Ellipsis)>>

LEMMA BodyType ==
  ASSUME NEW t \in Texts, NEW S, Line("text", t) \in S
  PROVE  Body(t) \in Seq(S) /\ Len(Body(t)) = LengthOf[t] /\ LengthOf[t] \in Nat \ {0}
<1>1. LengthOf[t] \in Nat \ {0}
  BY ConstantsAssumption
<1> QED
  BY <1>1 DEF Body

LEMMA TrimmedType ==
  ASSUME NEW n \in Names, NEW t \in Texts, NEW S, Line("text", t) \in S, Line("text", Ellipsis) \in S
  PROVE  Trimmed(n, t) \in Seq(S)
<1>1. Body(t) \in Seq(S)
  BY BodyType
<1>2. Abbreviation \in Seq(S)
  BY DEF Abbreviation
<1>3. SizeLimit[n] \in Nat \cup {NoLimit}
  BY ConstantsAssumption
<1> HIDE DEF Abbreviation
<1>4. SizeLimit[n] \in Nat => triming(Body(t), SizeLimit[n], Abbreviation) \in Seq(S)
  BY <1>1, <1>2, Trimming
<1>5. Trimmed(n, t) = IF SizeLimit[n] = NoLimit THEN Body(t)
                      ELSE triming(Body(t), SizeLimit[n], Abbreviation)
  BY DEF Trimmed, Abbreviation
<1> QED
  BY <1>1, <1>3, <1>4, <1>5

\* The sections of a flush: the full text, and what the memo gets.
Both(S) == [full : Seq(S), memo : Seq(S)]

LEMMA PutType ==
  ASSUME NEW sections \in Both(Lines), NEW n \in Names, texts[n] \in Texts
  PROVE  Put(sections, n) \in Both(Lines)
<1> DEFINE extracted == extructSection(sections.full, Section(n))
           full == <<Section(n)>> \o Body(texts[n])
           trimmed == <<Section(n)>> \o Trimmed(n, texts[n])
<1>1. sections.full \in Seq(Lines) /\ sections.memo \in Seq(Lines)
  BY DEF Both
<1>2. extracted \in Seq(Lines)
  BY <1>1, ExtructType
<1>3. Line("text", texts[n]) \in Lines /\ Line("text", Ellipsis) \in Lines /\ Section(n) \in Lines
  BY LineTypes
<1>4. <<Section(n)>> \in Seq(Lines) /\ Body(texts[n]) \in Seq(Lines) /\ Trimmed(n, texts[n]) \in Seq(Lines)
  <2>1. Body(texts[n]) \in Seq(Lines)
    BY <1>3, BodyType
  <2>2. Trimmed(n, texts[n]) \in Seq(Lines)
    BY <1>3, TrimmedType
  <2>3. <<Section(n)>> \in Seq(Lines)
    BY <1>3
  <2> QED
    BY <2>1, <2>2, <2>3
<1>5. full \in Seq(Lines) /\ trimmed \in Seq(Lines)
  BY <1>4, ConcatProperties
<1>6. Put(sections, n) =
        IF extracted = <<>>
          THEN [full |-> sections.full \o full, memo |-> sections.memo \o trimmed]
          ELSE [full |-> Replace(sections.full, extracted, full),
                memo |-> Replace(sections.memo, extracted, trimmed)]
  BY DEF Put
<1> HIDE DEF extracted, full, trimmed
<1>7. sections.full \o full \in Seq(Lines) /\ sections.memo \o trimmed \in Seq(Lines)
  BY <1>1, <1>5, ConcatProperties
<1>8. /\ Replace(sections.full, extracted, full) \in Seq(Lines)
      /\ Replace(sections.memo, extracted, trimmed) \in Seq(Lines)
  BY <1>1, <1>2, <1>5, ReplaceType
<1> QED
  BY <1>6, <1>7, <1>8 DEF Both

LEMMA InnerType ==
  ASSUME NEW S, NEW section \in Seq(S)
  PROVE  Inner(section) \in Seq(S)
<1>1. CASE section = <<>>
  BY <1>1 DEF Inner
<1>2. CASE section # <<>> /\ Len(section) > 1 /\ section[2].kind = "url"
  <2>1. Inner(section) = SubSeq(section, 3, Len(section))
    BY <1>2 DEF Inner
  <2>2. 3 \in 1 .. Len(section) + 1
    BY <1>2
  <2>3. SubSeq(section, 3, Len(section)) \in Seq(S)
    BY <2>2, LastPart
  <2> QED
    BY <2>1, <2>3
<1>3. CASE section # <<>> /\ ~ (Len(section) > 1 /\ section[2].kind = "url")
  BY <1>3 DEF Inner
<1> QED
  BY <1>1, <1>2, <1>3

\* The names of the sections have texts.
NamesHaveTexts == names \in Seq(Names) /\ \A n \in ToSet(names) : texts[n] \in Texts

\* The sections after each round of the loop over the names.
LEMMA RoundsOfSections ==
  ASSUME NEW old \in Seq(Lines), NamesHaveTexts
  PROVE  \E round \in [0 .. Len(names) -> Both(Lines)] :
           /\ round[0] = [full |-> Inner(old), memo |-> Inner(old)]
           /\ \A i \in 1 .. Len(names) : round[i] = Put(round[i - 1], names[i])
           /\ Sections(old) = round[Len(names)]
<1> DEFINE N == Len(names)
           S == Both(Lines)
           first == [full |-> Inner(old), memo |-> Inner(old)]
           put == [i \in 1 .. N |-> [s \in S |-> Put(s, names[i])]]
           Is(g) == g = [i \in 0 .. N |->
                          IF i = 0 THEN [full |-> Inner(old), memo |-> Inner(old)]
                          ELSE Put(g[i - 1], names[i])]
           f == Folded(S, first, put, N)
<1>1. N \in Nat /\ first \in S
  <2>1. Inner(old) \in Seq(Lines)
    BY InnerType
  <2> QED
    BY <2>1 DEF NamesHaveTexts, Both
<1>2. put \in [1 .. N -> [S -> S]]
  <2>1. ASSUME NEW i \in 1 .. N, NEW s \in S
        PROVE  Put(s, names[i]) \in S
    <3>1. names[i] \in Names /\ texts[names[i]] \in Texts
      BY DEF NamesHaveTexts, ToSet
    <3> QED
      BY <3>1, PutType
  <2> QED
    BY <2>1
<1>3. \A i \in 1 .. N : \A s \in S : put[i][s] = Put(s, names[i])
  OBVIOUS
<1> HIDE DEF N, S, first, put
<1>4. f \in [0 .. N -> S] /\ f[0] = first /\ \A i \in 1 .. N : f[i] = put[i][f[i - 1]]
  BY <1>1, <1>2, Folding
<1> HIDE DEF f
<1>5. Is(f)
  <2>1. ASSUME NEW i \in 0 .. N
        PROVE  f[i] = IF i = 0 THEN [full |-> Inner(old), memo |-> Inner(old)]
                      ELSE Put(f[i - 1], names[i])
    <3>1. CASE i = 0
      BY <1>4, <3>1 DEF first
    <3>2. CASE i # 0
      <4>1. i \in 1 .. N /\ i - 1 \in 0 .. N
        BY <1>1, <3>2
      <4> QED
        BY <1>3, <1>4, <3>2, <4>1
    <3> QED
      BY <3>1, <3>2
  <2> QED
    BY <1>4, <2>1
<1> DEFINE round == CHOOSE g : Is(g)
<1>6. Is(round)
  BY <1>5
<1>7. Sections(old) = round[N]
  BY DEF Sections, N
<1> HIDE DEF round
<1>8. round[0] = first /\ \A i \in 1 .. N : round[i] = Put(round[i - 1], names[i])
  BY <1>1, <1>6 DEF first
<1>9. round \in [0 .. N -> S]
  <2> DEFINE T == {i \in 0 .. N : round[i] \in S}
  <2>1. 0 \in T
    BY <1>1, <1>8
  <2>2. ASSUME NEW i \in 0 .. N - 1, i \in T
        PROVE  i + 1 \in T
    <3>1. i + 1 \in 1 .. N /\ (i + 1) - 1 = i
      BY <1>1
    <3>2. round[i + 1] = put[i + 1][round[i]]
      BY <1>3, <1>8, <2>2, <3>1
    <3>3. round[i + 1] \in S
      BY <1>2, <2>2, <3>1, <3>2
    <3> QED
      BY <3>1, <3>3
  <2> HIDE DEF T
  <2>3. 0 .. N \subseteq T
    BY <1>1, <2>1, <2>2, InductUpTo
  <2> QED
    BY <1>6, <2>3 DEF T
<1> QED
  BY <1>7, <1>8, <1>9 DEF N, S, first

LEMMA SectionsType ==
  ASSUME NEW old \in Seq(Lines), NamesHaveTexts
  PROVE  Sections(old).full \in Seq(Lines) /\ Sections(old).memo \in Seq(Lines)
<1>1. PICK round \in [0 .. Len(names) -> Both(Lines)] : Sections(old) = round[Len(names)]
  BY RoundsOfSections
<1>2. Len(names) \in 0 .. Len(names)
  BY DEF NamesHaveTexts
<1>3. Sections(old) \in Both(Lines)
  BY <1>1, <1>2
<1> QED
  BY <1>3 DEF Both

LEMMA NewSectionType ==
  ASSUME NEW old \in Seq(Lines), NEW d \in Dirs \cup {NoDir}, NamesHaveTexts
  PROVE  NewSection(old, d) \in Seq(Lines)
<1>1. Sections(old).full \in Seq(Lines) /\ Sections(old).memo \in Seq(Lines)
  BY SectionsType
<1>2. <<Header>> \in Seq(Lines)
  BY LineTypes
<1>3. d # NoDir => <<Line("url", d)>> \in Seq(Lines)
  BY LineTypes
<1>4. d # NoDir => <<Line("url", d)>> \o Sections(old).memo \in Seq(Lines)
  BY <1>1, <1>3, ConcatProperties
<1> QED
  BY <1>1, <1>2, <1>4, ConcatProperties DEF NewSection

\* What a flush writes is a text, before and after the cut.
LEMMA WholeMemoType ==
  ASSUME NEW m \in Seq(Lines), NEW d \in Dirs \cup {NoDir}, NamesHaveTexts
  PROVE  WholeMemo(m, d) \in Seq(Lines)
<1> DEFINE old == extructSection(m, Header)
           new == NewSection(old, d)
<1>1. old \in Seq(Lines)
  BY ExtructType
<1>2. WholeMemo(m, d) = IF old = <<>> THEN m \o new ELSE Replace(m, old, new)
  BY DEF WholeMemo
<1> HIDE DEF old
<1>3. new \in Seq(Lines)
  BY <1>1, NewSectionType
<1> HIDE DEF new
<1> QED
  BY <1>1, <1>2, <1>3, ConcatProperties, ReplaceType

\* A memo that is cut has Limit lines at least.
LEMMA CutOrNot ==
  ASSUME NEW m, NEW e, NEW d, NEW whole \in Seq(Lines), whole = WholeMemo(m, d)
  PROVE  \/ /\ Len(whole) + Trailing(m, e) <= Limit
            /\ Len(whole) <= Limit
            /\ NewMemo(m, e, d) = whole
         \/ /\ Len(whole) >= Limit
            /\ NewMemo(m, e, d) = Abbreviated(whole, Limit, Abbreviation)
<1>1. Trailing(m, e) \in {0, 1}
  BY DEF Trailing
<1>2. Len(whole) \in Nat /\ Limit \in Nat
  BY ConstantsAssumption
<1>3. NewMemo(m, e, d) = IF Len(whole) + Trailing(m, e) <= Limit THEN whole
                         ELSE Abbreviated(whole, Limit, Abbreviation)
  BY DEF NewMemo, Abbreviation
<1> QED
  BY <1>1, <1>2, <1>3

LEMMA NewMemoType ==
  ASSUME NEW m \in Seq(Lines), NEW e, NEW d \in Dirs \cup {NoDir}, NamesHaveTexts
  PROVE  NewMemo(m, e, d) \in Seq(Lines)
<1> DEFINE whole == WholeMemo(m, d)
<1>1. whole \in Seq(Lines)
  BY WholeMemoType
<1>2. Limit \in Nat /\ Abbreviation \in Seq(Lines)
  BY ConstantsAssumption, LineTypes DEF Abbreviation
<1>3. \/ NewMemo(m, e, d) = whole
      \/ Len(whole) >= Limit /\ NewMemo(m, e, d) = Abbreviated(whole, Limit, Abbreviation)
  BY <1>1, CutOrNot
<1> HIDE DEF whole
<1>4. Len(whole) \in Nat
  BY <1>1
<1> QED
  BY <1>1, <1>2, <1>3, <1>4, Abbreviating

-----------------------------------------------------------------------------
(* The types of the state.                                                  *)

Typed == MemoTypeOK /\ NamesHaveTexts

LEMMA TypedInit == Init => Typed
<1> SUFFICES ASSUME Init PROVE Typed
  OBVIOUS
<1>1. names \in Seq(Names) /\ memo \in Seq(Lines)
  BY ConstantsAssumption DEF Init
<1>2. docs \in [Dirs -> Seq(Lines)]
  BY DEF Init
<1>3. ToSet(names) = {}
  BY DEF Init, ToSet
<1> QED
  BY <1>1, <1>2, <1>3 DEF Init, Typed, MemoTypeOK, NamesHaveTexts

\* The texts of those who are to report are there.
LEMMA TextsFollow ==
  ASSUME NEW order \in Seq(Names), NEW t \in [ToSet(order) -> Texts],
         NEW given \in Seq(Names), ToSet(given) = ToSet(order),
         names' = given,
         texts' = [n \in Names |-> IF Contains(order, n) THEN t[n] ELSE NoText]
  PROVE  /\ NamesHaveTexts'
         /\ texts' \in [Names -> Texts \cup {NoText}]
<1>1. \A n : n \in ToSet(order) <=> Contains(order, n)
  BY DEF ToSet, Contains
<1>2. ToSet(given) \subseteq Names
  BY DEF ToSet
<1> QED
  BY <1>1, <1>2 DEF NamesHaveTexts

\* Another query of the execution adds its rules once more.
LEMMA NamesAgain ==
  ASSUME NEW order \in Seq(Names)
  PROVE  LET n == Cardinality(ToSet(order)) IN
         /\ n \in 0 .. Len(order)
         /\ order \o SubSeq(order, 1, n) \in Seq(Names)
         /\ ToSet(order \o SubSeq(order, 1, n)) = ToSet(order)
<1> DEFINE N == Len(order)
           n == Cardinality(ToSet(order))
           again == SubSeq(order, 1, n)
<1>1. N \in Nat /\ order \in [1 .. N -> Names]
  OBVIOUS
<1>2. n \in 0 .. N
  <2>1. order \in Surjection(1 .. N, ToSet(order))
    BY <1>1 DEF Surjection, ToSet
  <2>2. IsFiniteSet(1 .. N) /\ Cardinality(1 .. N) = N
    BY <1>1, FS_Interval
  <2>3. IsFiniteSet(ToSet(order)) /\ n <= N
    BY <2>1, <2>2, FS_Surjection
  <2>4. n \in Nat
    BY <2>3, FS_CardinalityType
  <2> QED
    BY <1>1, <2>3, <2>4
<1> HIDE DEF n
<1>3. again \in Seq(Names) /\ Len(again) = n /\ \A i \in 1 .. n : again[i] = order[i]
  BY <1>2, FirstPart
<1> HIDE DEF again
<1> DEFINE all == order \o again
<1>4. all \in Seq(Names)
  BY <1>3, ConcatProperties
<1>5. Len(all) = N + n
  BY <1>3, ConcatProperties
<1>6. \A i \in 1 .. N + n : all[i] = IF i <= N THEN order[i] ELSE again[i - N]
  BY <1>3, ConcatProperties
<1> HIDE DEF all
<1>7. ToSet(all) = ToSet(order)
  <2>1. ASSUME NEW i \in 1 .. N
        PROVE  order[i] \in ToSet(all)
    <3>1. i \in DOMAIN all /\ all[i] = order[i]
      BY <1>1, <1>2, <1>4, <1>5, <1>6
    <3> QED
      BY <3>1 DEF ToSet
  <2>2. ASSUME NEW i \in 1 .. N + n
        PROVE  all[i] \in ToSet(order)
    <3>1. CASE i <= N
      <4>1. i \in DOMAIN order /\ all[i] = order[i]
        BY <1>1, <1>6, <3>1
      <4> QED
        BY <4>1 DEF ToSet
    <3>2. CASE i > N
      <4>1. i - N \in 1 .. n /\ i - N \in DOMAIN order /\ all[i] = again[i - N]
        BY <1>1, <1>2, <1>6, <3>2
      <4>2. all[i] = order[i - N]
        BY <1>3, <4>1
      <4> QED
        BY <4>1, <4>2 DEF ToSet
    <3> QED
      BY <1>1, <1>2, <3>1, <3>2
  <2>3. DOMAIN all = 1 .. N + n /\ DOMAIN order = 1 .. N
    BY <1>1, <1>4, <1>5
  <2> QED
    BY <2>1, <2>2, <2>3 DEF ToSet
<1> QED
  BY <1>2, <1>4, <1>7 DEF again, all, n

LEMMA ExecuteTyped ==
  ASSUME NEW order \in Orders, NEW t \in [ToSet(order) -> Texts], Typed, Execute(order, t)
  PROVE  Typed'
<1>1. order \in Seq(Names) /\ names' = order
      /\ texts' = [n \in Names |-> IF Contains(order, n) THEN t[n] ELSE NoText]
  BY ConstantsAssumption DEF Execute
<1>2. NamesHaveTexts' /\ texts' \in [Names -> Texts \cup {NoText}]
  BY <1>1, TextsFollow
<1> QED
  BY <1>1, <1>2 DEF Typed, MemoTypeOK, Execute

LEMMA ExecuteAgainTyped ==
  ASSUME NEW t \in [ToSet(names) -> Texts], Typed, ExecuteAgain(t)
  PROVE  Typed' /\ ToSet(names') = ToSet(names)
<1> DEFINE given == names \o SubSeq(names, 1, Cardinality(ToSet(names)))
<1>1. names \in Seq(Names) /\ names' = given
      /\ texts' = [n \in Names |-> IF Contains(names, n) THEN t[n] ELSE NoText]
  BY DEF Typed, NamesHaveTexts, ExecuteAgain
<1>2. given \in Seq(Names) /\ ToSet(given) = ToSet(names)
  BY <1>1, NamesAgain
<1> HIDE DEF given
<1>3. NamesHaveTexts' /\ texts' \in [Names -> Texts \cup {NoText}]
  BY <1>1, <1>2, TextsFollow
<1> QED
  BY <1>1, <1>2, <1>3 DEF Typed, MemoTypeOK, ExecuteAgain

LEMMA UploadTyped ==
  ASSUME NEW d \in Dirs, Typed, Upload(d)
  PROVE  Typed'
<1> DEFINE old == extructSection(memo, Header)
<1>1. old \in Seq(Lines)
  BY ExtructType DEF Typed, MemoTypeOK
<1> HIDE DEF old
<1>2. Sections(old).full \in Seq(Lines)
  BY <1>1, SectionsType DEF Typed
<1>3. docs' = [docs EXCEPT ![d] = Sections(old).full]
  BY DEF Upload, old
<1>4. docs' \in [Dirs -> Seq(Lines)]
  BY <1>2, <1>3 DEF Typed, MemoTypeOK
<1>5. ahead' \subseteq Names
  BY DEF Upload, Typed, MemoTypeOK, ToSet
<1>6. NamesHaveTexts'
  BY DEF Upload, Typed, NamesHaveTexts
<1> QED
  BY <1>4, <1>5, <1>6 DEF Typed, MemoTypeOK, Upload

LEMMA UpdateTyped ==
  ASSUME Typed, Update
  PROVE  Typed'
<1>1. memo \in Seq(Lines) /\ dir \in Dirs \cup {NoDir} /\ NamesHaveTexts
  BY DEF Typed, MemoTypeOK
<1>2. memo' \in Seq(Lines)
  BY <1>1, NewMemoType DEF Update
<1>3. NamesHaveTexts'
  BY <1>1 DEF Update, NamesHaveTexts
<1> QED
  BY <1>2, <1>3 DEF Typed, MemoTypeOK, Update

LEMMA FlushFailsTyped ==
  ASSUME Typed, FlushFails
  PROVE  Typed'
BY DEF Typed, MemoTypeOK, NamesHaveTexts, FlushFails

LEMMA WriteTyped ==
  ASSUME Typed, NEW text \in Seq(Lines), NEW e \in BOOLEAN, Write(text, e)
  PROVE  Typed'
BY DEF Typed, MemoTypeOK, NamesHaveTexts, Write

\* What people may write on top and below.
LEMMA WrittenType ==
  ASSUME NEW n \in Notes, NEW m \in Seq(Lines)
  PROVE  /\ <<Note(n)>> \o m \in Seq(Lines)
         /\ <<OtherHeader, Note(n)>> \o m \in Seq(Lines)
         /\ m \o <<OtherHeader, Note(n)>> \in Seq(Lines)
<1>1. Note(n) \in Lines /\ OtherHeader \in Lines
  BY LineTypes DEF Note
<1>2. <<Note(n)>> \in Seq(Lines) /\ <<OtherHeader, Note(n)>> \in Seq(Lines)
  BY <1>1
<1> QED
  BY <1>2, ConcatProperties

LEMMA TypedKept == Typed /\ [Next]_vars => Typed'
<1> SUFFICES ASSUME Typed, [Next]_vars PROVE Typed'
  OBVIOUS
<1>1. CASE SetupStep /\ UNCHANGED memoVars
  BY <1>1 DEF memoVars, Typed, MemoTypeOK, NamesHaveTexts
<1>2. CASE \E order \in Orders : \E t \in [ToSet(order) -> Texts] : Execute(order, t)
  BY <1>2, ExecuteTyped
<1>3. CASE \E t \in [ToSet(names) -> Texts] : ExecuteAgain(t)
  BY <1>3, ExecuteAgainTyped
<1>4. CASE \E d \in Dirs : Upload(d)
  BY <1>4, UploadTyped
<1>5. CASE Keep
  BY <1>5 DEF Keep, Typed, MemoTypeOK, NamesHaveTexts
<1>6. CASE FlushFails
  BY <1>6, FlushFailsTyped
<1>7. CASE Update
  BY <1>7, UpdateTyped
<1>8. ASSUME NEW n \in Notes, WriteAbove(n) \/ WriteBelow(n)
      PROVE  Typed'
  <2>1. memo \in Seq(Lines) /\ newline \in BOOLEAN
    BY DEF Typed, MemoTypeOK
  <2>2. CASE Write(<<Note(n)>> \o memo, newline)
    BY <2>1, <2>2, WrittenType, WriteTyped
  <2>3. CASE Write(<<OtherHeader, Note(n)>> \o memo, newline)
    BY <2>1, <2>3, WrittenType, WriteTyped
  <2>4. CASE \E e \in BOOLEAN : Write(memo \o <<OtherHeader, Note(n)>>, e)
    BY <2>1, <2>4, WrittenType, WriteTyped
  <2> QED
    BY <1>8, <2>2, <2>3, <2>4 DEF WriteAbove, WriteBelow
<1>9. CASE UNCHANGED vars
  BY <1>9 DEF vars, memoVars, Typed, MemoTypeOK, NamesHaveTexts
<1> QED
  BY <1>1, <1>2, <1>3, <1>4, <1>5, <1>6, <1>7, <1>8, <1>9 DEF Next, Refused

LEMMA TypedInvariance == Spec => []Typed
BY TypedInit, TypedKept, PTL DEF Spec

\* Every variable has its type.
THEOREM Typing == Spec => []TypeOK
<1>1. SetupIInv /\ Typed => TypeOK
  BY DEF SetupIInv, Typed, TypeOK
<1> QED
  BY <1>1, SetupInvariance, TypedInvariance, PTL

-----------------------------------------------------------------------------
(* The sections of a text.  No name is the beginning of another one from here   *)
(* on, so that a header is found where it is.                                *)

NoBeginnings == \A n, m \in Names : <<n, m>> \in Begins => n = m

TextLines == {Line("text", t) : t \in Texts \cup Notes \cup {Ellipsis}}
SectionLines == {Section(n) : n \in Names} \cup TextLines

LEMMA Kinds ==
  /\ \A line \in TextLines : line.kind = "text"
  /\ \A line \in SectionLines : line \in TextLines \/ (line.kind = "###" /\ \E n \in Names : line = Section(n))
  /\ \A n : Section(n).kind = "###"
  /\ \A n, m : Section(n) = Section(m) => n = m
  /\ Header.kind = "##" /\ OtherHeader.kind = "##" /\ Header # OtherHeader
  /\ \A d : Line("url", d).kind = "url"
  /\ SectionLines \subseteq Lines /\ TextLines \subseteq SectionLines
<1>1. \A n, m : Section(n) = Section(m) => n = m
  <2> SUFFICES ASSUME NEW n, NEW m, Section(n) = Section(m) PROVE n = m
    OBVIOUS
  <2>1. Section(n).title = n /\ Section(m).title = m
    BY DEF Section, Line
  <2> QED
    BY <2>1
<1>2. Header # OtherHeader
  <2>1. Header.title = Prepalert /\ OtherHeader.title = Other
    BY DEF Header, OtherHeader, Line
  <2> QED
    BY <2>1, ConstantsAssumption
<1>3. \A line \in TextLines : line.kind = "text"
  BY DEF TextLines, Line
<1>4. \A n : Section(n).kind = "###"
  BY DEF Section, Line
<1>5. Header.kind = "##" /\ OtherHeader.kind = "##" /\ \A d : Line("url", d).kind = "url"
  BY DEF Header, OtherHeader, Line
<1>6. SectionLines \subseteq Lines /\ TextLines \subseteq SectionLines
  BY LineTypes DEF SectionLines, TextLines
<1> QED
  BY <1>1, <1>2, <1>3, <1>4, <1>5, <1>6 DEF SectionLines

LEMMA HeadersAreFound ==
  ASSUME NoBeginnings, NEW line \in Lines
  PROVE  /\ \A n \in Names : IsHeader(line, Section(n)) <=> line = Section(n)
         /\ IsHeader(line, Header) <=> line = Header
<1>1. line = [kind |-> line.kind, title |-> line.title]
  BY DEF Lines, Line, Header, OtherHeader, Section
<1>2. \A n, m : <<n, m>> \in Begins => n = m
  BY ConstantsAssumption DEF NoBeginnings
<1>3. ASSUME NEW kind, NEW title
      PROVE  IsHeader(line, Line(kind, title)) <=> line = Line(kind, title)
  <2>1. Line(kind, title).kind = kind /\ Line(kind, title).title = title
    BY DEF Line
  <2>2. IsHeader(line, Line(kind, title)) <=> line.kind = kind /\ line.title = title
    BY <1>2, <2>1 DEF IsHeader
  <2>3. line = Line(kind, title) => line.kind = kind /\ line.title = title
    BY <2>1
  <2>4. line.kind = kind /\ line.title = title => line = Line(kind, title)
    BY <1>1 DEF Line
  <2> QED
    BY <2>2, <2>3, <2>4
<1> QED
  BY <1>3 DEF Section, Header

\* At k begins the section of n, and b is all that it tells.
Tells(text, n, k, b) ==
  /\ k \in 1 .. Len(text) /\ text[k] = Section(n)
  /\ k + Len(b) <= Len(text)
  /\ \A i \in 1 .. Len(b) : text[k + i] = b[i]
  /\ k + Len(b) = Len(text) \/ text[k + Len(b) + 1].kind \in {"##", "###"}

LEMMA ToldIs ==
  ASSUME NEW S, NEW text \in Seq(S), NEW n, NEW k, NEW b \in Seq(TextLines), TextLines \subseteq S,
         Tells(text, n, k, b), \A i \in 1 .. k - 1 : text[i] # Section(n)
  PROVE  Told(text, n) = b
<1> DEFINE last == k + Len(b)
           told == SubSeq(text, k + 1, last)
<1>1. k \in 1 .. Len(text) /\ Len(b) \in Nat /\ last \in k .. Len(text) /\ Len(text) \in Nat
  BY DEF Tells
<1>2. ASSUME NEW i \in k + 1 .. last
      PROVE  text[i].kind \notin {"##", "###"}
  <2>1. i - k \in 1 .. Len(b) /\ k + (i - k) = i
    BY <1>1
  <2>2. text[i] = b[i - k] /\ b[i - k] \in TextLines
    BY <2>1 DEF Tells
  <2> QED
    BY <2>2, Kinds
<1>3. Reaches(text, {"##", "###"}, k, last)
  BY <1>1, <1>2 DEF Reaches, Tells
<1>4. Told(text, n) = told
  <2>1. text[k] = Section(n)
    BY DEF Tells
  <2> HIDE DEF last
  <2> QED
    BY <1>3, <2>1, ToldLines
<1>5. k + 1 \in 1 .. Len(text) + 1 /\ last \in 0 .. Len(text) /\ (last - (k + 1)) + 1 = Len(b)
  BY <1>1
<1>6. told \in Seq(S)
  BY <1>5, Part
<1>7. Len(told) = IF k + 1 <= last THEN (last - (k + 1)) + 1 ELSE 0
  BY <1>5, Part
<1>8. \A i \in 1 .. (last - (k + 1)) + 1 : told[i] = text[((k + 1) + i) - 1]
  BY <1>5, Part
<1> HIDE DEF told
<1>9. Len(told) = Len(b)
  BY <1>1, <1>5, <1>7
<1>10. ASSUME NEW i \in 1 .. Len(told)
       PROVE  told[i] = b[i]
  <2>1. ((k + 1) + i) - 1 = k + i /\ i \in 1 .. Len(b)
    BY <1>1, <1>9
  <2>2. told[i] = text[k + i]
    BY <1>5, <1>8, <2>1
  <2> QED
    BY <2>1, <2>2 DEF Tells
<1>11. b \in Seq(S)
  BY SeqMonotonic
<1>12. told = b
  BY <1>6, <1>9, <1>10, <1>11, SeqEqual
<1> QED
  BY <1>4, <1>12

\* Lines of sections, each of which is there once.
Wellformed(text) ==
  /\ text \in Seq(SectionLines)
  /\ \A i, j \in 1 .. Len(text) : text[i] = text[j] /\ text[i].kind = "###" => i = j

\* A section that is there tells what it is told to tell.
LEMMA ToldOnce ==
  ASSUME NEW text, Wellformed(text), NEW n, NEW k, NEW b \in Seq(TextLines), Tells(text, n, k, b)
  PROVE  Told(text, n) = b /\ Contains(text, Section(n))
<1>1. k \in 1 .. Len(text) /\ text[k] = Section(n) /\ text \in Seq(SectionLines)
  BY DEF Tells, Wellformed
<1>2. \A i \in 1 .. k - 1 : text[i] # Section(n)
  BY <1>1, Kinds DEF Wellformed
<1>3. Told(text, n) = b
  BY <1>1, <1>2, Kinds, ToldIs
<1> QED
  BY <1>1, <1>3 DEF Contains

LEMMA TellsSomething ==
  ASSUME NEW text, Wellformed(text), NEW n, NEW k \in 1 .. Len(text), text[k] = Section(n)
  PROVE  Told(text, n) \in Seq(TextLines) /\ Tells(text, n, k, Told(text, n))
<1>1. text \in Seq(SectionLines) /\ Len(text) \in Nat
  BY DEF Wellformed
<1>2. PICK last \in k .. Len(text) : Reaches(text, {"##", "###"}, k, last)
  BY <1>1, ReachOfLine
<1> DEFINE b == SubSeq(text, k + 1, last)
<1>3. k + 1 \in 1 .. Len(text) + 1 /\ last \in 0 .. Len(text) /\ (last - (k + 1)) + 1 = last - k
  BY <1>1
<1>4. Len(b) = IF k + 1 <= last THEN (last - (k + 1)) + 1 ELSE 0
  BY <1>1, <1>3, Part
<1>5. \A i \in 1 .. (last - (k + 1)) + 1 : b[i] = text[((k + 1) + i) - 1]
  BY <1>1, <1>3, Part
<1>6. \A i \in k + 1 .. last : text[i] \in TextLines
  BY <1>1, <1>2, Kinds DEF Reaches
<1>7. b \in Seq(TextLines)
  <2>1. k + 1 \in Int /\ last \in Int
    OBVIOUS
  <2> QED
    BY <1>6, <2>1, SubSeqProperties
<1> HIDE DEF b
<1>8. Len(b) = last - k
  BY <1>3, <1>4
<1>9. ASSUME NEW i \in 1 .. Len(b)
      PROVE  text[k + i] = b[i]
  <2>1. ((k + 1) + i) - 1 = k + i /\ i \in 1 .. (last - (k + 1)) + 1
    BY <1>8
  <2> QED
    BY <1>5, <2>1
<1>10. k + Len(b) = last
  BY <1>8
<1>11. Tells(text, n, k, b)
  BY <1>2, <1>9, <1>10 DEF Tells, Reaches
<1>12. Told(text, n) = b
  BY <1>7, <1>11, ToldOnce
<1> QED
  BY <1>7, <1>11, <1>12

\* What extructSection finds is the header and what the section tells.
LEMMA ExtructedContent ==
  ASSUME NoBeginnings, NEW text, Wellformed(text), NEW n \in Names
  PROVE  extructSection(text, Section(n)) =
           IF Contains(text, Section(n)) THEN <<Section(n)>> \o Told(text, n) ELSE <<>>
<1>1. text \in Seq(SectionLines) /\ Len(text) \in Nat /\ \A i \in 1 .. Len(text) : text[i] \in SectionLines
  BY DEF Wellformed
<1>2. \A i \in 1 .. Len(text) : IsHeader(text[i], Section(n)) <=> text[i] = Section(n)
  BY <1>1, HeadersAreFound, Kinds
<1>3. CASE ~ Contains(text, Section(n))
  BY <1>2, <1>3, ExtructedNothing DEF Contains
<1>4. CASE Contains(text, Section(n))
  <2>1. PICK k \in 1 .. Len(text) : text[k] = Section(n)
    BY <1>4 DEF Contains
  <2>2. Told(text, n) \in Seq(TextLines) /\ Tells(text, n, k, Told(text, n))
    BY <2>1, TellsSomething
  <2> DEFINE b == Told(text, n)
             last == k + Len(b)
             found == SubSeq(text, k, last)
             lines == <<Section(n)>> \o b
  <2> HIDE DEF b
  <2>3. b \in Seq(TextLines) /\ Tells(text, n, k, b)
    BY <2>2 DEF b
  <2>4. Len(b) \in Nat /\ last \in k .. Len(text) /\ k \in 1 .. Len(text) + 1 /\ last \in 0 .. Len(text)
    BY <2>3 DEF Tells
  <2>5. Reaches(text, {"###"}, k, last)
    <3>1. ASSUME NEW i \in k + 1 .. last
          PROVE  text[i].kind # "###"
      <4>1. i - k \in 1 .. Len(b) /\ k + (i - k) = i
        BY <2>4
      <4>2. text[i] = b[i - k] /\ b[i - k] \in TextLines
        BY <2>3, <4>1 DEF Tells
      <4> QED
        BY <4>2, Kinds
    <3>2. last = Len(text) \/ text[last + 1].kind = "###"
      <4>1. CASE last = Len(text)
        BY <4>1
      <4>2. CASE last # Len(text)
        <5>1. text[last + 1].kind \in {"##", "###"} /\ last + 1 \in 1 .. Len(text)
          BY <2>3, <2>4, <4>2 DEF Tells
        <5>2. text[last + 1].kind # "##"
          BY <1>1, <5>1, Kinds
        <5> QED
          BY <5>1, <5>2
      <4> QED
        BY <4>1, <4>2
    <3> QED
      BY <2>4, <3>1, <3>2 DEF Reaches
  <2>6. \A i \in 1 .. k - 1 : ~ IsHeader(text[i], Section(n))
    BY <1>1, <1>2, <2>1, Kinds DEF Wellformed
  <2>7. extructSection(text, Section(n)) = found
    <3>1. {Section(n).kind} = {"###"}
      BY Kinds
    <3> QED
      BY <1>1, <1>2, <2>1, <2>5, <2>6, <3>1, ExtructedSection
  <2>8. found \in Seq(SectionLines)
    BY <1>1, <2>4, Part
  <2>9. Len(found) = IF k <= last THEN (last - k) + 1 ELSE 0
    BY <1>1, <2>4, Part
  <2>10. \A i \in 1 .. (last - k) + 1 : found[i] = text[(k + i) - 1]
    BY <1>1, <2>4, Part
  <2>11. <<Section(n)>> \in Seq(SectionLines) /\ b \in Seq(SectionLines) /\ Len(<<Section(n)>>) = 1
    <3>1. Section(n) \in SectionLines
      BY DEF SectionLines
    <3> QED
      BY <2>3, <3>1, Kinds, SeqMonotonic
  <2>12. lines \in Seq(SectionLines)
    BY <2>11, ConcatProperties
  <2>13. Len(lines) = 1 + Len(b)
    BY <2>11, ConcatProperties
  <2>14. \A i \in 1 .. 1 + Len(b) : lines[i] = IF i <= 1 THEN <<Section(n)>>[i] ELSE b[i - 1]
    BY <2>11, ConcatProperties
  <2> HIDE DEF found, lines
  <2>15. ASSUME NEW i \in 1 .. Len(found)
         PROVE  found[i] = lines[i]
    <3>1. i \in 1 .. 1 + Len(b) /\ i \in 1 .. (last - k) + 1
      BY <2>4, <2>9
    <3>2. CASE i = 1
      <4>1. found[i] = text[k]
        BY <2>10, <3>1, <3>2
      <4>2. lines[i] = Section(n)
        BY <2>14, <3>1, <3>2
      <4> QED
        BY <2>1, <4>1, <4>2
    <3>3. CASE i > 1
      <4>1. i - 1 \in 1 .. Len(b) /\ k + (i - 1) = (k + i) - 1
        BY <3>1, <3>3, <2>4
      <4>2. text[k + (i - 1)] = b[i - 1]
        BY <2>3, <4>1 DEF Tells
      <4>3. found[i] = b[i - 1]
        BY <2>10, <3>1, <4>1, <4>2
      <4> QED
        BY <2>14, <3>1, <3>3, <4>3
    <3> QED
      BY <3>1, <3>2, <3>3
  <2>16. Len(found) = Len(lines)
    BY <2>4, <2>9, <2>13
  <2>17. found = lines
    BY <2>8, <2>12, <2>15, <2>16, SeqEqual
  <2> QED
    BY <1>4, <2>7, <2>17 DEF lines, b
<1> QED
  BY <1>3, <1>4

-----------------------------------------------------------------------------
(* Sections are replaced and added.                                         *)

\* A section as the code writes it.
Written(n, b) == <<Section(n)>> \o b

LEMMA WrittenLines ==
  ASSUME NEW n \in Names, NEW b \in Seq(TextLines)
  PROVE  /\ Written(n, b) \in Seq(SectionLines)
         /\ Len(Written(n, b)) = Len(b) + 1
         /\ Written(n, b)[1] = Section(n)
         /\ \A i \in 1 .. Len(b) : Written(n, b)[i + 1] = b[i]
<1> DEFINE s == <<Section(n)>>
<1>1. s \in Seq(SectionLines) /\ b \in Seq(SectionLines) /\ Len(s) = 1 /\ s[1] = Section(n)
  <2>1. Section(n) \in SectionLines
    BY DEF SectionLines
  <2> QED
    BY <2>1, Kinds, SeqMonotonic
<1>2. Len(b) \in Nat
  OBVIOUS
<1> HIDE DEF s
<1>3. s \o b \in Seq(SectionLines)
  BY <1>1, ConcatProperties
<1>4. Len(s \o b) = Len(s) + Len(b)
  BY <1>1, ConcatProperties
<1>5. \A i \in 1 .. Len(s) + Len(b) : (s \o b)[i] = IF i <= Len(s) THEN s[i] ELSE b[i - Len(s)]
  BY <1>1, ConcatProperties
<1>6. Written(n, b) = s \o b
  BY DEF Written, s
<1>7. (s \o b)[1] = Section(n)
  BY <1>1, <1>2, <1>5
<1>8. ASSUME NEW i \in 1 .. Len(b)
      PROVE  (s \o b)[i + 1] = b[i]
  <2>1. i + 1 \in 1 .. Len(s) + Len(b) /\ ~ (i + 1 <= Len(s)) /\ (i + 1) - Len(s) = i
    BY <1>1, <1>2
  <2> QED
    BY <1>5, <2>1
<1> QED
  BY <1>1, <1>2, <1>3, <1>4, <1>6, <1>7, <1>8

\* Another text tells the same of all sections but that of n.
SameBut(n, text, other) ==
  \A m \in Names \ {n} :
    /\ Contains(other, Section(m)) <=> Contains(text, Section(m))
    /\ Told(other, m) = Told(text, m)

\* It does if a section is found in it wherever there was one, and no others.
LEMMA SameSections ==
  ASSUME NEW n, NEW text, Wellformed(text), NEW other, Wellformed(other),
         \A m \in Names \ {n}, k \in 1 .. Len(text), b \in Seq(TextLines) :
           Tells(text, m, k, b) => \E j \in 1 .. Len(other) : Tells(other, m, j, b),
         \A m \in Names \ {n} : Contains(other, Section(m)) => Contains(text, Section(m))
  PROVE  SameBut(n, text, other)
<1> SUFFICES ASSUME NEW m \in Names \ {n}
             PROVE  /\ Contains(other, Section(m)) <=> Contains(text, Section(m))
                    /\ Told(other, m) = Told(text, m)
  BY DEF SameBut
<1>1. CASE Contains(text, Section(m))
  <2>1. PICK k \in 1 .. Len(text) : text[k] = Section(m)
    BY <1>1 DEF Contains
  <2>2. Told(text, m) \in Seq(TextLines) /\ Tells(text, m, k, Told(text, m))
    BY <2>1, TellsSomething
  <2>3. PICK j \in 1 .. Len(other) : Tells(other, m, j, Told(text, m))
    BY <2>2
  <2>4. Told(other, m) = Told(text, m) /\ Contains(other, Section(m))
    BY <2>2, <2>3, ToldOnce
  <2> QED
    BY <1>1, <2>4
<1>2. CASE ~ Contains(text, Section(m))
  <2>1. ~ Contains(other, Section(m))
    BY <1>2
  <2>2. Told(other, m) = <<>> /\ Told(text, m) = <<>>
    BY <1>2, <2>1, ToldNothing DEF Contains
  <2> QED
    BY <1>2, <2>1, <2>2
<1> QED
  BY <1>1, <1>2

\* A section is replaced: it tells something else, and nothing else has changed.
LEMMA Swapped ==
  ASSUME NEW text, Wellformed(text), NEW n \in Names, NEW k, NEW old \in Seq(TextLines),
         Tells(text, n, k, old), NEW new \in Seq(TextLines)
  PROVE  LET r == ReplaceSubSeqAt(k, Written(n, new), Written(n, old), text) IN
         /\ Wellformed(r)
         /\ Contains(r, Section(n)) /\ Told(r, n) = new
         /\ SameBut(n, text, r)
<1> DEFINE r == ReplaceSubSeqAt(k, Written(n, new), Written(n, old), text)
           L == Len(text)
           lo == Len(old)
           ln == Len(new)
           wo == Written(n, old)
           wn == Written(n, new)
<1>1. /\ lo \in Nat /\ ln \in Nat /\ L \in Nat /\ k \in 1 .. L /\ k + lo <= L
      /\ text \in Seq(SectionLines) /\ text[k] = Section(n)
  BY DEF Wellformed, Tells
<1>2. /\ wo \in Seq(SectionLines) /\ wn \in Seq(SectionLines)
      /\ Len(wo) = lo + 1 /\ Len(wn) = ln + 1
      /\ wn[1] = Section(n)
      /\ \A i \in 1 .. ln : wn[i + 1] = new[i]
  BY WrittenLines
<1> HIDE DEF r, wo, wn
<1>3. Len(wo) <= (L - k) + 1
  BY <1>1, <1>2
<1>4. /\ r \in Seq(SectionLines)
      /\ Len(r) = (L - Len(wo)) + Len(wn)
      /\ \A i \in 1 .. k - 1 : r[i] = text[i]
      /\ \A i \in 1 .. Len(wn) : r[(k - 1) + i] = wn[i]
      /\ \A i \in k + Len(wo) .. L : r[(i - Len(wo)) + Len(wn)] = text[i]
  <2>1. wo \in Seq(SectionLines) /\ wn \in Seq(SectionLines) /\ text \in Seq(SectionLines)
    BY <1>1, <1>2
  <2>2. r = ReplaceSubSeqAt(k, wn, wo, text)
    BY DEF r, wo, wn
  <2>3. k \in 1 .. L
    BY <1>1
  <2>4. r \in Seq(SectionLines) /\ Replaced(r, k, wn, wo, text)
    BY <1>3, <2>1, <2>2, <2>3, ReplacedAt
  <2> QED
    BY <2>4 DEF Replaced
<1> HIDE DEF L, lo, ln
<1>5. Len(r) = (L - lo) + ln /\ Len(r) \in Nat
  BY <1>1, <1>2, <1>4
<1>6. \A i \in 1 .. k - 1 : r[i] = text[i]
  BY <1>4
<1>7. r[k] = Section(n)
  <2>1. 1 \in 1 .. Len(wn) /\ (k - 1) + 1 = k
    BY <1>1, <1>2
  <2> QED
    BY <1>2, <1>4, <2>1
<1>8. \A i \in 1 .. ln : r[k + i] = new[i] /\ r[k + i] \in TextLines
  <2>1. ASSUME NEW i \in 1 .. ln
        PROVE  r[k + i] = new[i] /\ r[k + i] \in TextLines
    <3>1. i + 1 \in 1 .. Len(wn) /\ (k - 1) + (i + 1) = k + i
      BY <1>1, <1>2
    <3>2. r[k + i] = new[i]
      BY <1>2, <1>4, <3>1
    <3>3. new[i] \in TextLines
      BY DEF ln
    <3> QED
      BY <3>2, <3>3
  <2> QED
    BY <2>1
<1>9. \A i \in k + lo + 1 .. L : r[(i - lo) + ln] = text[i]
  <2>1. ASSUME NEW i \in k + lo + 1 .. L
        PROVE  r[(i - lo) + ln] = text[i]
    <3>1. i \in k + Len(wo) .. L /\ (i - Len(wo)) + Len(wn) = (i - lo) + ln
      BY <1>1, <1>2
    <3> QED
      BY <1>4, <3>1
  <2> QED
    BY <2>1
<1>10. \A i \in 1 .. lo : text[k + i] \in TextLines
  BY DEF Tells, lo
\* Where a line of the new text was before.
<1> DEFINE was(i) == IF i < k THEN i ELSE (i - ln) + lo
           isnew(i) == i \in k .. k + ln
<1>11. \A i \in 1 .. Len(r) : ~ isnew(i) => was(i) \in 1 .. L /\ r[i] = text[was(i)]
  <2>1. ASSUME NEW i \in 1 .. Len(r), ~ isnew(i)
        PROVE  was(i) \in 1 .. L /\ r[i] = text[was(i)]
    <3>1. CASE i < k
      BY <1>1, <1>6, <3>1
    <3>2. CASE i > k + ln
      <4>1. was(i) = (i - ln) + lo
        BY <1>1, <3>2
      <4>2. (i - ln) + lo \in k + lo + 1 .. L /\ (((i - ln) + lo) - lo) + ln = i
        BY <1>1, <1>5, <3>2
      <4>3. r[i] = text[(i - ln) + lo]
        BY <1>9, <4>2
      <4> QED
        BY <1>1, <4>1, <4>2, <4>3
    <3> QED
      BY <1>1, <2>1, <3>1, <3>2
  <2> QED
    BY <2>1
<1>12. \A i \in 1 .. Len(r) : isnew(i) => (r[i] = Section(n) /\ i = k) \/ r[i] \in TextLines
  <2>1. ASSUME NEW i \in 1 .. Len(r), isnew(i)
        PROVE  (r[i] = Section(n) /\ i = k) \/ r[i] \in TextLines
    <3>1. CASE i = k
      BY <1>7, <3>1
    <3>2. CASE i # k
      <4>1. i - k \in 1 .. ln /\ k + (i - k) = i
        BY <1>1, <2>1, <3>2
      <4> QED
        BY <1>8, <4>1
    <3> QED
      BY <3>1, <3>2
  <2> QED
    BY <2>1
<1>13. Wellformed(r)
  <2>1. ASSUME NEW i \in 1 .. Len(r), NEW j \in 1 .. Len(r), r[i] = r[j], r[i].kind = "###"
        PROVE  i = j
    <3>1. r[i] \notin TextLines /\ r[j] \notin TextLines
      BY <2>1, Kinds
    <3>2. CASE isnew(i) /\ isnew(j)
      BY <1>12, <3>1, <3>2
    <3>3. CASE isnew(i) /\ ~ isnew(j)
      <4>1. text[was(j)] = text[k] /\ was(j) \in 1 .. L
        BY <1>1, <1>11, <1>12, <2>1, <3>1, <3>3
      <4>2. was(j) = k
        BY <1>1, <4>1, Kinds DEF Wellformed, L
      <4> QED
        BY <1>1, <3>3, <4>2
    <3>4. CASE isnew(j) /\ ~ isnew(i)
      <4>1. text[was(i)] = text[k] /\ was(i) \in 1 .. L
        BY <1>1, <1>11, <1>12, <2>1, <3>1, <3>4
      <4>2. was(i) = k
        BY <1>1, <4>1, Kinds DEF Wellformed, L
      <4> QED
        BY <1>1, <3>4, <4>2
    <3>5. CASE ~ isnew(i) /\ ~ isnew(j)
      <4>1. text[was(i)] = text[was(j)] /\ was(i) \in 1 .. L /\ was(j) \in 1 .. L
              /\ text[was(i)].kind = "###"
        BY <1>11, <2>1, <3>5
      <4> HIDE DEF was
      <4>2. was(i) = was(j)
        BY <4>1 DEF Wellformed, L
      <4> QED
        BY <1>1, <1>5, <3>5, <4>2 DEF was
    <3> QED
      BY <3>2, <3>3, <3>4, <3>5
  <2> QED
    BY <1>4, <2>1 DEF Wellformed
<1>14. Tells(r, n, k, new)
  <2>1. k \in 1 .. Len(r) /\ k + ln <= Len(r)
    BY <1>1, <1>5
  <2>2. k + ln = Len(r) \/ r[(k + ln) + 1].kind \in {"##", "###"}
    <3>1. CASE k + lo = L
      BY <1>1, <1>5, <3>1
    <3>2. CASE k + lo # L
      <4>1. text[(k + lo) + 1].kind \in {"##", "###"}
        BY <1>1, <3>2 DEF Tells, lo, L
      <4>2. (k + lo) + 1 \in k + lo + 1 .. L /\ (((k + lo) + 1) - lo) + ln = (k + ln) + 1
        BY <1>1, <3>2
      <4>3. r[(k + ln) + 1] = text[(k + lo) + 1]
        BY <1>9, <4>2
      <4> QED
        BY <4>1, <4>3
    <3> QED
      BY <3>1, <3>2
  <2> QED
    BY <1>7, <1>8, <2>1, <2>2 DEF Tells, ln
<1>15. Told(r, n) = new /\ Contains(r, Section(n))
  BY <1>13, <1>14, ToldOnce
<1>16. ASSUME NEW m \in Names \ {n}, Contains(r, Section(m))
       PROVE  Contains(text, Section(m))
  <2>1. PICK i \in 1 .. Len(r) : r[i] = Section(m)
    BY <1>16 DEF Contains
  <2>2. r[i] \notin TextLines /\ r[i] # Section(n)
    BY <2>1, Kinds
  <2>3. ~ isnew(i)
    BY <1>12, <2>2
  <2>4. was(i) \in 1 .. L /\ text[was(i)] = Section(m)
    BY <1>11, <2>1, <2>3
  <2> QED
    BY <2>4 DEF Contains, L
<1>17. ASSUME NEW m \in Names \ {n}, NEW h \in 1 .. L, NEW b \in Seq(TextLines), Tells(text, m, h, b)
       PROVE  \E j \in 1 .. Len(r) : Tells(r, m, j, b)
  <2> DEFINE lb == Len(b)
  <2>1. /\ lb \in Nat /\ text[h] = Section(m) /\ h + lb <= L
        /\ \A i \in 1 .. lb : text[h + i] = b[i] /\ text[h + i] \in TextLines
        /\ h + lb = L \/ text[(h + lb) + 1].kind \in {"##", "###"}
    BY <1>17 DEF Tells, L
  <2> HIDE DEF lb
  <2>2. h # k /\ text[h] \notin TextLines /\ text[k] \notin TextLines
    <3>1. text[h] = Section(m) /\ text[k] = Section(n) /\ m # n
      BY <1>1, <2>1
    <3>2. Section(m) # Section(n) /\ Section(m) \notin TextLines /\ Section(n) \notin TextLines
      BY <3>1, Kinds
    <3> QED
      BY <3>1, <3>2
  <2>3. h < k \/ h > k + lo
    <3> SUFFICES ASSUME h > k, h <= k + lo PROVE FALSE
      BY <1>1, <2>2
    <3>1. h - k \in 1 .. lo /\ k + (h - k) = h
      BY <1>1
    <3> QED
      BY <1>10, <2>2, <3>1
  <2>4. CASE h < k
    <3>1. h + lb < k
      <4> SUFFICES ASSUME h + lb >= k PROVE FALSE
        BY <1>1, <2>1
      <4>1. k - h \in 1 .. lb /\ h + (k - h) = k
        BY <1>1, <2>1, <2>4
      <4> QED
        BY <2>1, <2>2, <4>1
    <3>2. h \in 1 .. Len(r) /\ h + lb <= Len(r) /\ r[h] = Section(m)
      BY <1>1, <1>5, <1>6, <2>1, <2>4, <3>1
    <3>3. ASSUME NEW i \in 1 .. lb
          PROVE  r[h + i] = b[i]
      <4>1. h + i \in 1 .. k - 1
        BY <1>1, <2>1, <3>1
      <4> QED
        BY <1>6, <2>1, <4>1
    <3>4. r[(h + lb) + 1].kind \in {"##", "###"}
      <4>1. CASE h + lb + 1 < k
        <5>1. text[(h + lb) + 1].kind \in {"##", "###"} /\ (h + lb) + 1 \in 1 .. k - 1
          BY <1>1, <2>1, <4>1
        <5> QED
          BY <1>6, <5>1
      <4>2. CASE (h + lb) + 1 = k
        BY <1>7, <4>2, Kinds
      <4> QED
        BY <1>1, <2>1, <3>1, <4>1, <4>2
    <3>5. Tells(r, m, h, b)
      BY <3>2, <3>3, <3>4 DEF Tells, lb
    <3> QED
      BY <3>2, <3>5
  <2>5. CASE h > k + lo
    <3> DEFINE j == (h - lo) + ln
    <3>1. \A i \in h .. L : r[(i - lo) + ln] = text[i]
      BY <1>1, <1>9, <2>5
    <3>2. j \in 1 .. Len(r) /\ j + lb <= Len(r) /\ r[j] = Section(m)
      BY <1>1, <1>5, <2>1, <2>5, <3>1
    <3>3. ASSUME NEW i \in 1 .. lb
          PROVE  r[j + i] = b[i]
      <4>1. h + i \in h .. L /\ ((h + i) - lo) + ln = j + i
        BY <1>1, <2>1
      <4>2. r[j + i] = text[h + i]
        BY <3>1, <4>1
      <4> QED
        BY <2>1, <4>2
    <3>4. j + lb = Len(r) \/ r[(j + lb) + 1].kind \in {"##", "###"}
      <4>1. CASE h + lb = L
        BY <1>1, <1>5, <2>1, <4>1
      <4>2. CASE h + lb # L
        <5>1. text[(h + lb) + 1].kind \in {"##", "###"} /\ (h + lb) + 1 \in h .. L
                /\ (((h + lb) + 1) - lo) + ln = (j + lb) + 1
          BY <1>1, <2>1, <4>2
        <5> QED
          BY <3>1, <5>1
      <4> QED
        BY <4>1, <4>2
    <3> HIDE DEF j
    <3>5. Tells(r, m, j, b)
      BY <3>2, <3>3, <3>4 DEF Tells, lb
    <3> QED
      BY <3>2, <3>5
  <2> QED
    BY <2>3, <2>4, <2>5
<1>18. SameBut(n, text, r)
  BY <1>13, <1>16, <1>17, SameSections DEF L
<1> QED
  BY <1>13, <1>15, <1>18 DEF r

\* A section is added at the end.
LEMMA Added ==
  ASSUME NEW text, Wellformed(text), NEW n \in Names, ~ Contains(text, Section(n)),
         NEW new \in Seq(TextLines), NEW r, r = text \o Written(n, new)
  PROVE  /\ Wellformed(r)
         /\ Contains(r, Section(n)) /\ Told(r, n) = new
         /\ SameBut(n, text, r)
<1> DEFINE L == Len(text)
           ln == Len(new)
           wn == Written(n, new)
<1>1. L \in Nat /\ ln \in Nat /\ text \in Seq(SectionLines)
  BY DEF Wellformed
<1>2. wn \in Seq(SectionLines) /\ Len(wn) = ln + 1 /\ wn[1] = Section(n)
      /\ \A i \in 1 .. ln : wn[i + 1] = new[i]
  BY WrittenLines
<1> HIDE DEF wn
<1>3. r = text \o wn
  BY DEF wn
<1>4. r \in Seq(SectionLines)
  BY <1>1, <1>2, <1>3, ConcatProperties
<1>5. Len(r) = L + Len(wn)
  BY <1>1, <1>2, <1>3, ConcatProperties
<1>6. \A i \in 1 .. L + Len(wn) : r[i] = IF i <= L THEN text[i] ELSE wn[i - L]
  BY <1>1, <1>2, <1>3, ConcatProperties
<1> HIDE DEF L, ln
<1>7. Len(r) = L + 1 + ln /\ Len(r) \in Nat
  BY <1>1, <1>2, <1>5
<1>8. ASSUME NEW i \in 1 .. L
      PROVE  r[i] = text[i]
  <2>1. i \in 1 .. L + Len(wn) /\ i <= L
    BY <1>1, <1>2
  <2> QED
    BY <1>6, <2>1
<1>9. r[L + 1] = Section(n)
  <2>1. L + 1 \in 1 .. L + Len(wn) /\ ~ (L + 1 <= L) /\ (L + 1) - L = 1
    BY <1>1, <1>2
  <2> QED
    BY <1>2, <1>6, <2>1
<1>10. ASSUME NEW i \in 1 .. ln
       PROVE  r[(L + 1) + i] = new[i] /\ new[i] \in TextLines
  <2>1. (L + 1) + i \in 1 .. L + Len(wn) /\ ~ ((L + 1) + i <= L) /\ ((L + 1) + i) - L = i + 1
    BY <1>1, <1>2
  <2>2. new[i] \in TextLines
    BY DEF ln
  <2> QED
    BY <1>2, <1>6, <2>1, <2>2
<1>11. \A i \in 1 .. Len(r) : i > L => (r[i] = Section(n) /\ i = L + 1) \/ r[i] \in TextLines
  <2>1. ASSUME NEW i \in 1 .. Len(r), i > L
        PROVE  (r[i] = Section(n) /\ i = L + 1) \/ r[i] \in TextLines
    <3>1. CASE i = L + 1
      BY <1>9, <3>1
    <3>2. CASE i # L + 1
      <4>1. i - (L + 1) \in 1 .. ln /\ (L + 1) + (i - (L + 1)) = i
        BY <1>1, <1>7, <2>1, <3>2
      <4> QED
        BY <1>10, <4>1
    <3> QED
      BY <3>1, <3>2
  <2> QED
    BY <2>1
<1>12. \A i \in 1 .. L : text[i] # Section(n)
  BY DEF Contains, L
<1>13. Wellformed(r)
  <2>1. ASSUME NEW i \in 1 .. Len(r), NEW j \in 1 .. Len(r), r[i] = r[j], r[i].kind = "###"
        PROVE  i = j
    <3>1. r[i] \notin TextLines /\ r[j] \notin TextLines
      BY <2>1, Kinds
    <3>2. CASE i <= L /\ j <= L
      <4>1. i \in 1 .. L /\ j \in 1 .. L /\ text[i] = text[j] /\ text[i].kind = "###"
        BY <1>8, <2>1, <3>2
      <4> QED
        BY <4>1 DEF Wellformed, L
    <3>3. CASE i > L /\ j > L
      BY <1>11, <3>1, <3>3
    <3>4. CASE i <= L /\ j > L
      BY <1>8, <1>11, <1>12, <2>1, <3>1, <3>4
    <3>5. CASE i > L /\ j <= L
      BY <1>8, <1>11, <1>12, <2>1, <3>1, <3>5
    <3> QED
      BY <1>1, <3>2, <3>3, <3>4, <3>5
  <2> QED
    BY <1>4, <2>1 DEF Wellformed
<1>14. Tells(r, n, L + 1, new)
  <2>1. L + 1 \in 1 .. Len(r) /\ (L + 1) + ln = Len(r)
    BY <1>1, <1>7
  <2> QED
    BY <1>1, <1>7, <1>9, <1>10, <2>1 DEF Tells, ln
<1>15. Told(r, n) = new /\ Contains(r, Section(n))
  BY <1>13, <1>14, ToldOnce
<1>16. ASSUME NEW m \in Names \ {n}, Contains(r, Section(m))
       PROVE  Contains(text, Section(m))
  <2>1. PICK i \in 1 .. Len(r) : r[i] = Section(m)
    BY <1>16 DEF Contains
  <2>2. r[i] \notin TextLines /\ r[i] # Section(n)
    BY <2>1, Kinds
  <2>3. i \in 1 .. L /\ text[i] = Section(m)
    BY <1>1, <1>8, <1>11, <2>1, <2>2
  <2> QED
    BY <2>3 DEF Contains, L
<1>17. ASSUME NEW m \in Names \ {n}, NEW h \in 1 .. L, NEW b \in Seq(TextLines), Tells(text, m, h, b)
       PROVE  \E j \in 1 .. Len(r) : Tells(r, m, j, b)
  <2> DEFINE lb == Len(b)
  <2>1. /\ lb \in Nat /\ text[h] = Section(m) /\ h + lb <= L
        /\ \A i \in 1 .. lb : text[h + i] = b[i]
        /\ h + lb = L \/ text[(h + lb) + 1].kind \in {"##", "###"}
    BY <1>17 DEF Tells, L
  <2> HIDE DEF lb
  <2>2. h \in 1 .. Len(r) /\ h + lb <= Len(r) /\ r[h] = Section(m)
    BY <1>1, <1>7, <1>8, <2>1
  <2>3. ASSUME NEW i \in 1 .. lb
        PROVE  r[h + i] = b[i]
    <3>1. h + i \in 1 .. L
      BY <1>1, <2>1
    <3> QED
      BY <1>8, <2>1, <3>1
  <2>4. r[(h + lb) + 1].kind \in {"##", "###"}
    <3>1. CASE h + lb = L
      BY <1>9, <3>1, Kinds
    <3>2. CASE h + lb # L
      <4>1. (h + lb) + 1 \in 1 .. L
        <5>1. h + lb <= L /\ lb \in Nat /\ h \in 1 .. L
          BY <2>1
        <5> QED
          BY <1>1, <3>2, <5>1
      <4> QED
        BY <1>8, <2>1, <3>2, <4>1
    <3> QED
      BY <3>1, <3>2
  <2>5. Tells(r, m, h, b)
    BY <2>2, <2>3, <2>4 DEF Tells, lb
  <2> QED
    BY <2>2, <2>5
<1>18. SameBut(n, text, r)
  BY <1>13, <1>16, <1>17, SameSections DEF L
<1> QED
  BY <1>13, <1>15, <1>18

\* To look for a section of n as a text finds the section of n, if it tells the same;
\* and nothing, if what it tells is no longer.
LEMMA ReplaceFinds ==
  ASSUME NEW text, Wellformed(text), NEW n \in Names, NEW k, NEW b \in Seq(TextLines),
         Tells(text, n, k, b),
         NEW old \in Seq(TextLines), Len(b) <= Len(old), NEW new \in Seq(TextLines)
  PROVE  Replace(text, Written(n, old), Written(n, new)) =
           IF old = b THEN ReplaceSubSeqAt(k, Written(n, new), Written(n, b), text) ELSE text
<1> DEFINE L == Len(text)
           lo == Len(old)
           lb == Len(b)
           wo == Written(n, old)
           rest(j) == SubSeq(text, j, L)
           at == {j \in DOMAIN text : IsPrefix(wo, rest(j))}
<1>1. lo \in Nat /\ lb \in Nat /\ L \in Nat /\ k \in 1 .. L /\ k + lb <= L /\ lb <= lo
  BY DEF Wellformed, Tells
<1>2. /\ text \in Seq(SectionLines) /\ text[k] = Section(n) /\ DOMAIN text = 1 .. L
      /\ \A i \in 1 .. lb : text[k + i] = b[i]
      /\ k + lb = L \/ text[(k + lb) + 1].kind \in {"##", "###"}
  BY DEF Wellformed, Tells
<1> HIDE DEF L, lo, lb
<1>3. wo \in Seq(SectionLines) /\ Len(wo) = lo + 1 /\ wo[1] = Section(n)
      /\ \A i \in 1 .. lo : wo[i + 1] = old[i]
  BY WrittenLines DEF lo
<1> HIDE DEF wo
<1>4. ASSUME NEW j \in 1 .. L
      PROVE  /\ rest(j) \in Seq(SectionLines)
             /\ Len(rest(j)) = (L - j) + 1
             /\ \A i \in 1 .. (L - j) + 1 : rest(j)[i] = text[(j + i) - 1]
  <2>1. j \in 1 .. L + 1
    BY <1>1
  <2>2. text \in Seq(SectionLines)
    BY <1>2
  <2> QED
    BY <2>1, <2>2, LastPart DEF L
<1>5. ASSUME NEW j \in 1 .. L
      PROVE  j \in at <=> /\ j + lo <= L /\ text[j] = Section(n)
                          /\ \A i \in 1 .. lo : text[j + i] = old[i]
  <2> DEFINE s == rest(j)
             N == lo + 1
             p == SubSeq(wo, 1, N)
             q == SubSeq(s, 1, N)
  <2>1. s \in Seq(SectionLines) /\ Len(s) = (L - j) + 1
        /\ \A i \in 1 .. (L - j) + 1 : s[i] = text[(j + i) - 1]
    BY <1>4
  <2>2. j \in at <=> IsPrefix(wo, s)
    BY <1>2
  <2> HIDE DEF s, at
  <2>3. IsPrefix(wo, s) <=> N <= (L - j) + 1 /\ p = q
    BY <1>3, <2>1 DEF IsPrefix
  <2>4. p = wo
    BY <1>3, SubSeqFull
  <2>5. CASE ~ (N <= (L - j) + 1)
    BY <1>1, <2>2, <2>3, <2>5
  <2>6. CASE N <= (L - j) + 1
    <3>1. N \in 0 .. Len(s)
      BY <1>1, <2>1, <2>6
    <3>2. q \in Seq(SectionLines)
      BY <2>1, <3>1, FirstPart
    <3>3. Len(q) = N
      BY <2>1, <3>1, FirstPart
    <3>4. \A i \in 1 .. N : q[i] = s[i]
      BY <2>1, <3>1, FirstPart
    <3> HIDE DEF q, p
    <3>5. q[1] = text[j]
      <4>1. 1 \in 1 .. N /\ 1 \in 1 .. (L - j) + 1 /\ (j + 1) - 1 = j
        BY <1>1, <2>6
      <4> QED
        BY <2>1, <3>4, <4>1
    <3>6. ASSUME NEW i \in 1 .. lo
          PROVE  q[i + 1] = text[j + i]
      <4>1. i + 1 \in 1 .. N /\ i + 1 \in 1 .. (L - j) + 1 /\ (j + (i + 1)) - 1 = j + i
        BY <1>1, <2>6
      <4> QED
        BY <2>1, <3>4, <4>1
    <3>7. ASSUME wo = q
          PROVE  text[j] = Section(n) /\ \A i \in 1 .. lo : text[j + i] = old[i]
      <4>1. \A i \in 1 .. lo : text[j + i] = old[i]
        BY <1>3, <3>6, <3>7
      <4> QED
        BY <1>3, <3>5, <3>7, <4>1
    <3>8. ASSUME text[j] = Section(n), \A i \in 1 .. lo : text[j + i] = old[i]
          PROVE  wo = q
      <4>1. ASSUME NEW i \in 1 .. Len(wo)
            PROVE  wo[i] = q[i]
        <5>1. CASE i = 1
          BY <1>3, <3>5, <3>8, <5>1
        <5>2. CASE i # 1
          <6>1. i - 1 \in 1 .. lo /\ (i - 1) + 1 = i
            BY <1>1, <1>3, <5>2
          <6> QED
            BY <1>3, <3>6, <3>8, <6>1
        <5> QED
          BY <5>1, <5>2
      <4> QED
        BY <1>3, <3>2, <3>3, <4>1, SeqEqual
    <3>9. j + lo <= L
      BY <1>1, <2>6
    <3> QED
      BY <2>2, <2>3, <2>4, <2>6, <3>7, <3>8, <3>9
  <2> QED
    BY <2>5, <2>6
<1>6. at \subseteq 1 .. L
  BY <1>2
<1>7. Replace(text, wo, Written(n, new)) =
        IF at = {} THEN text ELSE ReplaceSubSeqAt(CHOOSE j \in at : TRUE, Written(n, new), wo, text)
  BY DEF Replace, L
<1> HIDE DEF at
<1>8. ASSUME NEW j \in at
      PROVE  j = k /\ old = b
  <2>1. j \in 1 .. L /\ j + lo <= L /\ text[j] = Section(n)
        /\ \A i \in 1 .. lo : text[j + i] = old[i]
    BY <1>5, <1>6
  <2>2. j = k
    <3>1. text[j] = text[k] /\ text[j].kind = "###"
      BY <1>2, <2>1, Kinds
    <3> QED
      BY <1>1, <2>1, <3>1 DEF Wellformed, L
  <2>3. \A i \in 1 .. lo : text[k + i].kind = "text"
    <3>1. \A i \in 1 .. lo : old[i] \in TextLines
      BY DEF lo
    <3> QED
      BY <2>1, <2>2, <3>1, Kinds
  <2>4. lo = lb
    <3> SUFFICES ASSUME lo # lb PROVE FALSE
      OBVIOUS
    <3>1. lb < lo /\ lb + 1 \in 1 .. lo /\ k + (lb + 1) = (k + lb) + 1
      BY <1>1
    <3>2. text[(k + lb) + 1].kind = "text"
      BY <2>3, <3>1
    <3>3. k + lb # L
      <4>1. k + lo <= L
        BY <2>1, <2>2
      <4> QED
        BY <1>1, <3>1, <4>1
    <3> QED
      BY <1>2, <3>2, <3>3
  <2>5. \A i \in 1 .. Len(old) : old[i] = b[i]
    BY <1>2, <2>1, <2>2, <2>4 DEF lo
  <2>6. old = b
    BY <2>4, <2>5, SeqEqual DEF lo, lb
  <2> QED
    BY <2>2, <2>6
<1>9. CASE old = b
  <2>1. lo = lb
    BY <1>9 DEF lo, lb
  <2>2. k \in at
    BY <1>1, <1>2, <1>5, <1>9, <2>1
  <2>3. (CHOOSE j \in at : TRUE) = k
    <3>1. (CHOOSE j \in at : TRUE) \in at
      BY <2>2
    <3> QED
      BY <1>8, <3>1
  <2>4. at # {}
    BY <2>2
  <2> QED
    BY <1>7, <1>9, <2>3, <2>4 DEF wo
<1>10. CASE old # b
  <2>1. at = {}
    BY <1>8, <1>10
  <2> QED
    BY <1>7, <1>10, <2>1 DEF wo
<1> QED
  BY <1>9, <1>10

-----------------------------------------------------------------------------
(* The loop over the names.                                                 *)

\* A cut text is no longer than the text.
LEMMA TrimmedIsShorter ==
  ASSUME NEW n \in Names, NEW t \in Texts
  PROVE  /\ Body(t) \in Seq(TextLines) /\ Trimmed(n, t) \in Seq(TextLines)
         /\ Len(Trimmed(n, t)) <= Len(Body(t))
<1>1. Line("text", t) \in TextLines /\ Line("text", Ellipsis) \in TextLines
  BY DEF TextLines
<1>2. Body(t) \in Seq(TextLines)
  BY <1>1, BodyType
<1>3. Trimmed(n, t) \in Seq(TextLines)
  BY <1>1, TrimmedType
<1> DEFINE limit == SizeLimit[n]
           b == Body(t)
<1>4. Trimmed(n, t) = IF limit = NoLimit THEN b ELSE triming(b, limit, Abbreviation)
  BY DEF Trimmed, Abbreviation
<1>5. limit \in Nat \cup {NoLimit}
  BY ConstantsAssumption
<1>6. Abbreviation \in Seq(TextLines)
  BY <1>1 DEF Abbreviation
<1>7. b \in Seq(TextLines) /\ Len(b) \in Nat
  BY <1>2
<1> HIDE DEF limit, b, Abbreviation
<1>8. CASE limit = NoLimit
  BY <1>2, <1>3, <1>4, <1>7, <1>8 DEF b
<1>9. CASE limit \in Nat /\ limit # NoLimit
  <2> DEFINE tr == triming(b, limit, Abbreviation)
  <2>1. tr \in Seq(TextLines) /\ Len(tr) <= limit
    BY <1>6, <1>7, <1>9, Trimming
  <2>2. Len(b) <= limit => tr = b
    BY DEF triming
  <2>3. tr = Trimmed(n, t)
    BY <1>4, <1>9
  <2> HIDE DEF tr
  <2>4. Len(tr) \in Nat
    BY <2>1
  <2>5. Len(tr) <= Len(b)
    BY <1>7, <1>9, <2>1, <2>2, <2>4
  <2> QED
    BY <1>2, <1>3, <2>3, <2>5 DEF b
<1> QED
  BY <1>5, <1>8, <1>9

\* What the two texts tell, of which the first starts as the second does: all of those
\* who were put, a cut text in the second, and what the start tells of the others.
PutInto(full, cut, start, done) ==
  /\ Wellformed(full) /\ Wellformed(cut)
  /\ \A m \in Names \cap done :
       /\ Contains(full, Section(m)) /\ Told(full, m) = Body(texts[m])
       /\ Contains(cut, Section(m)) /\ Told(cut, m) = Trimmed(m, texts[m])
  /\ \A m \in Names \ done :
       /\ Contains(full, Section(m)) <=> Contains(start, Section(m))
       /\ Contains(cut, Section(m)) <=> Contains(start, Section(m))
       /\ Told(full, m) = Told(start, m) /\ Told(cut, m) = Told(start, m)

\* The replacement of a section that is there.
LEMMA ReplacedSection ==
  ASSUME NEW text, Wellformed(text), NEW n \in Names, Contains(text, Section(n)),
         NEW new \in Seq(TextLines),
         NEW r, r = Replace(text, Written(n, Told(text, n)), Written(n, new))
  PROVE  /\ Wellformed(r)
         /\ Contains(r, Section(n)) /\ Told(r, n) = new
         /\ SameBut(n, text, r)
<1>1. PICK k \in 1 .. Len(text) : text[k] = Section(n)
  BY DEF Contains
<1> DEFINE b == Told(text, n)
<1>2. b \in Seq(TextLines) /\ Tells(text, n, k, b)
  BY <1>1, TellsSomething
<1>3. r = Replace(text, Written(n, b), Written(n, new))
  OBVIOUS
<1> HIDE DEF b
<1>4. Len(b) <= Len(b)
  BY <1>2
<1>5. r = ReplaceSubSeqAt(k, Written(n, new), Written(n, b), text)
  BY <1>2, <1>3, <1>4, ReplaceFinds
<1>6. /\ Wellformed(r)
      /\ Contains(r, Section(n)) /\ Told(r, n) = new
      /\ SameBut(n, text, r)
  BY <1>2, <1>5, Swapped
<1> QED
  BY <1>6

LEMMA PutPuts ==
  ASSUME NoBeginnings, NEW full, NEW cut, NEW start, NEW done, PutInto(full, cut, start, done),
         NEW n \in Names, texts[n] \in Texts,
         NEW s, s.full = full, s.memo = cut
  PROVE  PutInto(Put(s, n).full, Put(s, n).memo, start, done \cup {n})
<1> DEFINE t == texts[n]
           body == Body(t)
           trimmed == Trimmed(n, t)
           wf == Written(n, body)
           wt == Written(n, trimmed)
           extracted == extructSection(full, Section(n))
           full2 == Put(s, n).full
           cut2 == Put(s, n).memo
<1>1. Wellformed(full) /\ Wellformed(cut)
  BY DEF PutInto
<1>2. body \in Seq(TextLines) /\ trimmed \in Seq(TextLines) /\ Len(trimmed) <= Len(body)
  BY TrimmedIsShorter
<1>3. extracted = IF Contains(full, Section(n)) THEN Written(n, Told(full, n)) ELSE <<>>
  BY <1>1, ExtructedContent DEF Written
<1>4. /\ extracted = <<>> => full2 = full \o wf /\ cut2 = cut \o wt
      /\ extracted # <<>> => full2 = Replace(full, extracted, wf) /\ cut2 = Replace(cut, extracted, wt)
  BY DEF Put, Written
<1> HIDE DEF extracted, full2, cut2, wf, wt
\* The two texts with a section of n that tells what it should.
<1>5. SUFFICES
        /\ Wellformed(full2) /\ Contains(full2, Section(n)) /\ Told(full2, n) = body
        /\ SameBut(n, full, full2)
        /\ Wellformed(cut2) /\ Contains(cut2, Section(n)) /\ Told(cut2, n) = trimmed
        /\ SameBut(n, cut, cut2)
  <2> DEFINE after == done \cup {n}
  <2>1. full2 = Put(s, n).full /\ cut2 = Put(s, n).memo
    BY DEF full2, cut2
  <2>2. Wellformed(full2) /\ Wellformed(cut2)
    BY <1>5
  <2>3. ASSUME NEW m \in Names \cap after
        PROVE  /\ Contains(full2, Section(m)) /\ Told(full2, m) = Body(texts[m])
               /\ Contains(cut2, Section(m)) /\ Told(cut2, m) = Trimmed(m, texts[m])
    <3>1. CASE m = n
      BY <1>5, <3>1
    <3>2. CASE m # n
      <4>1. /\ Contains(full, Section(m)) /\ Told(full, m) = Body(texts[m])
            /\ Contains(cut, Section(m)) /\ Told(cut, m) = Trimmed(m, texts[m])
        BY <3>2 DEF PutInto
      <4> HIDE DEF body, trimmed
      <4> QED
        BY <1>5, <3>2, <4>1 DEF SameBut
    <3> QED
      BY <3>1, <3>2
  <2>4. ASSUME NEW m \in Names \ after
        PROVE  /\ Contains(full2, Section(m)) <=> Contains(start, Section(m))
               /\ Contains(cut2, Section(m)) <=> Contains(start, Section(m))
               /\ Told(full2, m) = Told(start, m) /\ Told(cut2, m) = Told(start, m)
    <3>1. /\ Contains(full, Section(m)) <=> Contains(start, Section(m))
          /\ Contains(cut, Section(m)) <=> Contains(start, Section(m))
          /\ Told(full, m) = Told(start, m) /\ Told(cut, m) = Told(start, m)
      BY DEF PutInto
    <3>2. m # n
      OBVIOUS
    <3> HIDE DEF body, trimmed, after
    <3> QED
      BY <1>5, <3>1, <3>2 DEF SameBut
  <2> HIDE DEF after
  <2>5. PutInto(full2, cut2, start, after)
    BY <2>2, <2>3, <2>4 DEF PutInto
  <2> QED
    BY <2>1, <2>5 DEF after
<1>6. CASE ~ Contains(full, Section(n))
  <2>1. ~ Contains(cut, Section(n))
    BY <1>6 DEF PutInto
  <2>2. full2 = full \o Written(n, body) /\ cut2 = cut \o Written(n, trimmed)
    BY <1>3, <1>4, <1>6 DEF wf, wt
  <2> HIDE DEF body, trimmed
  <2>3. Wellformed(full2) /\ Contains(full2, Section(n)) /\ Told(full2, n) = body
        /\ SameBut(n, full, full2)
    BY <1>1, <1>2, <1>6, <2>2, Added
  <2>4. Wellformed(cut2) /\ Contains(cut2, Section(n)) /\ Told(cut2, n) = trimmed
        /\ SameBut(n, cut, cut2)
    BY <1>1, <1>2, <2>1, <2>2, Added
  <2> QED
    BY <2>3, <2>4
<1>7. CASE Contains(full, Section(n))
  <2> DEFINE of == Told(full, n)
             oc == Told(cut, n)
  <2>1. Contains(cut, Section(n)) /\ (oc = of \/ (of = body /\ oc = trimmed))
    <3>1. CASE n \in done
      <4>1. Contains(cut, Section(n)) /\ of = Body(texts[n]) /\ oc = Trimmed(n, texts[n])
        BY <3>1 DEF PutInto
      <4> QED
        BY <4>1
    <3>2. CASE n \notin done
      <4>1. /\ Contains(full, Section(n)) <=> Contains(start, Section(n))
            /\ Contains(cut, Section(n)) <=> Contains(start, Section(n))
            /\ of = Told(start, n) /\ oc = Told(start, n)
        BY <3>2 DEF PutInto
      <4> HIDE DEF of, oc
      <4> QED
        BY <1>7, <4>1
    <3> QED
      BY <3>1, <3>2
  <2>2. extracted = Written(n, of) /\ extracted # <<>>
    <3>1. extracted = Written(n, of)
      BY <1>3, <1>7
    <3>2. of \in Seq(TextLines)
      <4>1. PICK k \in 1 .. Len(full) : full[k] = Section(n)
        BY <1>7 DEF Contains
      <4> QED
        BY <1>1, <4>1, TellsSomething
    <3> HIDE DEF of
    <3>3. Len(Written(n, of)) = Len(of) + 1 /\ Len(of) \in Nat
      BY <3>2, WrittenLines
    <3>4. Written(n, of) # <<>>
      BY <3>3
    <3> QED
      BY <3>1, <3>4
  <2>3. full2 = Replace(full, Written(n, of), Written(n, body))
        /\ cut2 = Replace(cut, Written(n, of), Written(n, trimmed))
    BY <1>4, <2>2 DEF wf, wt
  <2> HIDE DEF body, trimmed
  <2>4. Wellformed(full2) /\ Contains(full2, Section(n)) /\ Told(full2, n) = body
        /\ SameBut(n, full, full2)
    BY <1>1, <1>2, <1>7, <2>3, ReplacedSection
  <2>5. Wellformed(cut2) /\ Contains(cut2, Section(n)) /\ Told(cut2, n) = trimmed
        /\ SameBut(n, cut, cut2)
    <3>1. CASE oc = of
      <4>1. cut2 = Replace(cut, Written(n, Told(cut, n)), Written(n, trimmed))
        BY <2>3, <3>1
      <4> QED
        BY <1>1, <1>2, <2>1, <4>1, ReplacedSection
    <3>2. CASE oc # of
      <4>1. of = body /\ oc = trimmed
        BY <2>1, <3>2
      <4>2. PICK k \in 1 .. Len(cut) : cut[k] = Section(n)
        BY <2>1 DEF Contains
      <4>3. Tells(cut, n, k, trimmed)
        BY <1>1, <4>1, <4>2, TellsSomething
      <4>4. cut2 = Replace(cut, Written(n, body), Written(n, trimmed)) /\ body # trimmed
        BY <2>3, <3>2, <4>1
      <4> HIDE DEF of, oc
      <4>5. cut2 = cut
        BY <1>1, <1>2, <4>3, <4>4, ReplaceFinds
      <4> QED
        BY <1>1, <2>1, <4>1, <4>5 DEF SameBut, oc
    <3> QED
      BY <3>1, <3>2
  <2> QED
    BY <2>4, <2>5
<1> QED
  BY <1>6, <1>7

\* Both texts after each round of the loop.
LEMMA RoundsTell ==
  ASSUME NoBeginnings, NamesHaveTexts, NEW old \in Seq(Lines), Wellformed(Inner(old))
  PROVE  \E round \in [0 .. Len(names) -> Both(Lines)] :
           /\ round[0] = [full |-> Inner(old), memo |-> Inner(old)]
           /\ \A i \in 1 .. Len(names) : round[i] = Put(round[i - 1], names[i])
           /\ Sections(old) = round[Len(names)]
           /\ \A i \in 0 .. Len(names) :
                PutInto(round[i].full, round[i].memo, Inner(old), {names[j] : j \in 1 .. i})
<1> DEFINE N == Len(names)
           start == Inner(old)
           Done(i) == {names[j] : j \in 1 .. i}
<1>1. N \in Nat /\ names \in Seq(Names) /\ DOMAIN names = 1 .. N
  BY DEF NamesHaveTexts
<1>2. PICK round \in [0 .. N -> Both(Lines)] :
        /\ round[0] = [full |-> Inner(old), memo |-> Inner(old)]
        /\ \A i \in 1 .. N : round[i] = Put(round[i - 1], names[i])
        /\ Sections(old) = round[N]
  BY RoundsOfSections
<1> DEFINE T == {i \in 0 .. N : PutInto(round[i].full, round[i].memo, start, Done(i))}
<1>3. 0 \in T
  <2>1. Done(0) = {}
    OBVIOUS
  <2>2. round[0].full = start /\ round[0].memo = start
    BY <1>2
  <2>3. Wellformed(start)
    OBVIOUS
  <2> HIDE DEF start, Done
  <2>4. PutInto(start, start, start, {})
    BY <2>3 DEF PutInto
  <2>5. PutInto(round[0].full, round[0].memo, start, Done(0))
    BY <2>1, <2>2, <2>4
  <2>6. 0 \in 0 .. N
    BY <1>1
  <2> HIDE DEF N
  <2> QED
    BY <2>5, <2>6
<1>4. ASSUME NEW i \in 0 .. N - 1, i \in T
      PROVE  i + 1 \in T
  <2>1. i + 1 \in 1 .. N /\ (i + 1) - 1 = i /\ i + 1 \in 0 .. N
    BY <1>1
  <2>2. round[i + 1] = Put(round[i], names[i + 1])
    BY <1>2, <2>1
  <2>3. names[i + 1] \in Names /\ texts[names[i + 1]] \in Texts
    BY <1>1, <2>1 DEF NamesHaveTexts, ToSet
  <2>4. Done(i + 1) = Done(i) \cup {names[i + 1]}
    <3>1. 1 .. i + 1 = (1 .. i) \cup {i + 1}
      BY <2>1
    <3> QED
      BY <3>1
  <2>5. PutInto(round[i].full, round[i].memo, start, Done(i))
    BY <1>4
  <2> DEFINE s == round[i]
             n == names[i + 1]
             done == Done(i)
  <2> HIDE DEF start, Done, N, T
  <2>6. PutInto(s.full, s.memo, start, done) /\ n \in Names /\ texts[n] \in Texts
    BY <2>3, <2>5
  <2>7. round[i + 1] = Put(s, n) /\ Done(i + 1) = done \cup {n}
    BY <2>2, <2>4
  <2> HIDE DEF s, n, done
  <2>8. PutInto(Put(s, n).full, Put(s, n).memo, start, done \cup {n})
    BY <2>6, PutPuts
  <2>9. PutInto(round[i + 1].full, round[i + 1].memo, start, Done(i + 1))
    BY <2>7, <2>8
  <2> QED
    BY <2>1, <2>9 DEF T
<1>5. 0 .. N \subseteq T
  <2> HIDE DEF T
  <2> QED
    BY <1>1, <1>3, <1>4, InductUpTo
<1>6. \A i \in 0 .. N : PutInto(round[i].full, round[i].memo, start, Done(i))
  BY <1>5
<1> QED
  BY <1>2, <1>6

\* The lines of a section that are neither header nor link, after the loop: the full
\* text and the cut one tell what was rendered, and of other rules what was there.
LEMMA SectionsTell ==
  ASSUME NoBeginnings, NamesHaveTexts, NEW old \in Seq(Lines), Wellformed(Inner(old))
  PROVE  PutInto(Sections(old).full, Sections(old).memo, Inner(old), ToSet(names))
<1> DEFINE N == Len(names)
<1>1. N \in Nat /\ DOMAIN names = 1 .. N
  BY DEF NamesHaveTexts
<1>2. PICK round \in [0 .. N -> Both(Lines)] :
        /\ Sections(old) = round[N]
        /\ \A i \in 0 .. N :
             PutInto(round[i].full, round[i].memo, Inner(old), {names[j] : j \in 1 .. i})
  BY RoundsTell
<1>3. {names[j] : j \in 1 .. N} = ToSet(names)
  BY <1>1 DEF ToSet
<1>4. N \in 0 .. N
  BY <1>1
<1> HIDE DEF N
<1>5. PutInto(round[N].full, round[N].memo, Inner(old), {names[j] : j \in 1 .. N})
  BY <1>2, <1>4
<1> QED
  BY <1>2, <1>3, <1>5

-----------------------------------------------------------------------------
(* Where prepalert's section is in a memo.                                   *)

\* What people write, and what a cut leaves.
Free == {OtherHeader} \cup TextLines

LEMMA FreeLines ==
  /\ Free \subseteq Lines /\ TextLines \subseteq Free
  /\ \A line \in Free : line # Header /\ line.kind # "###" /\ line.kind # "url"
BY Kinds, LineTypes DEF Free

\* Prepalert's section: its header, maybe the link, and lines of sections.
Headed(s) ==
  /\ s \in Seq(Lines) /\ Len(s) >= 1 /\ s[1] = Header
  /\ \A i \in 2 .. Len(s) : s[i] \in SectionLines \/ (i = 2 /\ s[i].kind = "url")
  /\ \A i, j \in 2 .. Len(s) : s[i] = s[j] /\ s[i].kind = "###" => i = j

\* The section s begins at h; what is around it is free, and below it is a heading.
Frame(m, h, s) ==
  /\ m \in Seq(Lines) /\ s \in Seq(Lines)
  /\ h \in 1 .. Len(m) + 1 /\ (h - 1) + Len(s) <= Len(m)
  /\ \A i \in 1 .. Len(s) : m[(h - 1) + i] = s[i]
  /\ \A i \in 1 .. h - 1 : m[i] \in Free
  /\ \A i \in h + Len(s) .. Len(m) : m[i] \in Free
  /\ h + Len(s) <= Len(m) => m[h + Len(s)] = OtherHeader

\* A memo, at any time.
Framed(m) == m \in Seq(Free) \/ \E s \in Seq(Lines), h \in 1 .. Len(m) : Headed(s) /\ Frame(m, h, s)

\* The lines of the link.
Linked(s) == IF Len(s) > 1 /\ s[2].kind = "url" THEN 1 ELSE 0

LEMMA InnerLines ==
  ASSUME NEW s, Headed(s)
  PROVE  /\ Wellformed(Inner(s))
         /\ Len(Inner(s)) = (Len(s) - 1) - Linked(s)
         /\ \A i \in 1 .. Len(Inner(s)) : Inner(s)[i] = s[(1 + Linked(s)) + i]
<1> DEFINE L == Len(s)
           l == Linked(s)
           c == Inner(s)
<1>1. s \in Seq(Lines) /\ L \in Nat /\ L >= 1 /\ s # <<>> /\ l \in {0, 1} /\ l <= L - 1
  BY DEF Headed, Linked
<1>2. c = SubSeq(s, 2 + l, L)
  <2>1. CASE Len(s) > 1 /\ s[2].kind = "url"
    BY <1>1, <2>1 DEF Inner, Linked
  <2>2. CASE ~ (Len(s) > 1 /\ s[2].kind = "url")
    <3>1. c = Tail(s)
      BY <1>1, <2>2 DEF Inner
    <3>2. Tail(s) = SubSeq(s, 2, L)
      BY <1>1, TailIsSubSeq
    <3> QED
      BY <2>2, <3>1, <3>2 DEF Linked
  <2> QED
    BY <2>1, <2>2
<1>3. 2 + l \in 1 .. L + 1 /\ (L - (2 + l)) + 1 = (L - 1) - l
  BY <1>1
<1>4. \A i \in 2 + l .. L : s[i] \in SectionLines
  BY <1>1 DEF Headed, Linked
<1> HIDE DEF l, c, L
<1>5. Len(c) = (L - 1) - l /\ \A i \in 1 .. (L - 1) - l : c[i] = s[((2 + l) + i) - 1]
  BY <1>1, <1>2, <1>3, LastPart DEF L
<1>6. c \in Seq(SectionLines)
  <2>1. 2 + l \in Int /\ L \in Int
    BY <1>1
  <2> QED
    BY <1>2, <1>4, <2>1, SubSeqProperties
<1>7. ASSUME NEW i \in 1 .. Len(c)
      PROVE  c[i] = s[(1 + l) + i] /\ (1 + l) + i \in 2 .. L
  <2>1. ((2 + l) + i) - 1 = (1 + l) + i /\ i \in 1 .. (L - 1) - l /\ (1 + l) + i \in 2 .. L
    BY <1>1, <1>5
  <2> QED
    BY <1>5, <2>1
<1>8. ASSUME NEW i \in 1 .. Len(c), NEW j \in 1 .. Len(c), c[i] = c[j], c[i].kind = "###"
      PROVE  i = j
  <2>1. (1 + l) + i = (1 + l) + j
    <3>1. c[i] = s[(1 + l) + i] /\ (1 + l) + i \in 2 .. L
      BY <1>7
    <3>2. c[j] = s[(1 + l) + j] /\ (1 + l) + j \in 2 .. L
      BY <1>7
    <3> QED
      BY <1>8, <3>1, <3>2 DEF Headed, L
  <2> QED
    BY <1>1, <2>1
<1> QED
  BY <1>5, <1>6, <1>7, <1>8 DEF Wellformed, c, l, L

\* The section that NewSection writes.
LEMMA HeadedSection ==
  ASSUME NEW d \in Dirs \cup {NoDir}, NEW c, Wellformed(c),
         NEW s, d = NoDir => s = <<Header>> \o c,
         d # NoDir => s = <<Header>> \o (<<Line("url", d)>> \o c)
  PROVE  /\ Headed(s) /\ Inner(s) = c
         /\ Linked(s) = IF d = NoDir THEN 0 ELSE 1
         /\ d # NoDir => s[2] = Line("url", d)
<1> DEFINE link == IF d = NoDir THEN <<>> ELSE <<Line("url", d)>>
           l == Len(link)
           hd == <<Header>>
           L == Len(c)
<1>1. /\ c \in Seq(Lines) /\ hd \in Seq(Lines) /\ Len(hd) = 1 /\ hd[1] = Header
      /\ L \in Nat /\ c \in Seq(SectionLines)
  <2>1. c \in Seq(SectionLines)
    BY DEF Wellformed
  <2> QED
    BY <2>1, Kinds, LineTypes, SeqMonotonic
<1>2. link \in Seq(Lines) /\ l = (IF d = NoDir THEN 0 ELSE 1) /\ \A i \in 1 .. l : link[i] = Line("url", d)
  BY LineTypes
<1>3. s = (hd \o link) \o c
  <2>1. CASE d = NoDir
    <3>1. hd \o link = hd
      BY <1>1, <2>1, ConcatEmptySeq
    <3> QED
      BY <2>1, <3>1
  <2>2. CASE d # NoDir
    <3>1. hd \o (link \o c) = (hd \o link) \o c
      BY <1>1, <1>2, ConcatAssociative
    <3> QED
      BY <2>2, <3>1
  <2> QED
    BY <2>1, <2>2
<1> HIDE DEF link, l, hd, L
<1>4. hd \in Seq(Lines) /\ link \in Seq(Lines) /\ c \in Seq(Lines)
  BY <1>1, <1>2
<1>5. s \in Seq(Lines)
  BY <1>3, <1>4, Joined
<1>6. Len(s) = (1 + l) + L
  <2>1. Len(s) = (Len(hd) + Len(link)) + Len(c)
    BY <1>3, <1>4, Joined
  <2> QED
    BY <1>1, <2>1 DEF l, L
<1>7. s[1] = Header
  <2>1. \A i \in 1 .. Len(hd) : s[i] = hd[i]
    BY <1>3, <1>4, Joined
  <2> QED
    BY <1>1, <2>1
<1>8. \A i \in 1 .. l : s[1 + i] = Line("url", d)
  <2>1. \A i \in 1 .. Len(link) : s[Len(hd) + i] = link[i]
    <3>1. \A i \in 1 .. Len(link) : ((hd \o link) \o c)[Len(hd) + i] = link[i]
      BY <1>4, Joined
    <3> QED
      BY <1>3, <3>1
  <2> QED
    BY <1>1, <1>2, <2>1 DEF l
<1>9. \A i \in 1 .. L : s[(1 + l) + i] = c[i]
  <2>1. \A i \in 1 .. Len(c) : s[(Len(hd) + Len(link)) + i] = c[i]
    <3>1. \A i \in 1 .. Len(c) : ((hd \o link) \o c)[(Len(hd) + Len(link)) + i] = c[i]
      BY <1>4, Joined
    <3> QED
      BY <1>3, <3>1
  <2>2. (Len(hd) + Len(link)) = 1 + l /\ Len(c) = L
    BY <1>1 DEF l, L
  <2> QED
    BY <2>1, <2>2
<1>10. l \in {0, 1} /\ l \in Nat
  BY <1>2
<1>11. ASSUME NEW i \in 2 .. Len(s)
       PROVE  \/ i = 2 /\ l = 1 /\ s[i] = Line("url", d) /\ s[i].kind = "url"
              \/ /\ i - (1 + l) \in 1 .. L /\ s[i] = c[i - (1 + l)]
                 /\ s[i] \in SectionLines
  <2>1. CASE i = 2 /\ l = 1
    <3>1. s[1 + 1] = Line("url", d)
      BY <1>8, <2>1
    <3> QED
      BY <2>1, <3>1, Kinds
  <2>2. CASE ~ (i = 2 /\ l = 1)
    <3>1. i - (1 + l) \in 1 .. L /\ (1 + l) + (i - (1 + l)) = i
      BY <1>1, <1>6, <1>10, <2>2
    <3>2. s[i] = c[i - (1 + l)]
      BY <1>9, <3>1
    <3>3. c[i - (1 + l)] \in SectionLines
      BY <1>1, <3>1 DEF L
    <3> QED
      BY <3>1, <3>2, <3>3
  <2> QED
    BY <2>1, <2>2
<1>12. ASSUME NEW i \in 2 .. Len(s), NEW j \in 2 .. Len(s), s[i] = s[j], s[i].kind = "###"
       PROVE  i = j
  <2>1. i - (1 + l) \in 1 .. L /\ s[i] = c[i - (1 + l)]
    BY <1>11, <1>12
  <2>2. j - (1 + l) \in 1 .. L /\ s[j] = c[j - (1 + l)]
    BY <1>11, <1>12
  <2>3. i - (1 + l) = j - (1 + l)
    BY <1>12, <2>1, <2>2 DEF Wellformed, L
  <2> QED
    BY <1>10, <2>3
<1>13. Headed(s)
  BY <1>1, <1>6, <1>7, <1>10, <1>11, <1>12, <1>5 DEF Headed
<1>14. Linked(s) = l
  <2>1. CASE l = 1
    <3>1. s[1 + 1] = Line("url", d) /\ Len(s) > 1
      BY <1>1, <1>6, <1>8, <2>1
    <3> QED
      BY <2>1, <3>1, Kinds DEF Linked
  <2>2. CASE l = 0
    <3>1. Len(s) > 1 => s[2] \in SectionLines
      BY <1>1, <1>6, <1>11, <2>2
    <3>2. Len(s) > 1 => s[2].kind # "url"
      BY <3>1, Kinds
    <3> QED
      BY <2>2, <3>2 DEF Linked
  <2> QED
    BY <1>10, <2>1, <2>2
<1>15. Inner(s) = c
  <2> DEFINE e == Inner(s)
  <2>1. e \in Seq(SectionLines) /\ Len(e) = (Len(s) - 1) - l /\ \A i \in 1 .. Len(e) : e[i] = s[(1 + l) + i]
    BY <1>13, <1>14, InnerLines DEF Wellformed
  <2> HIDE DEF e
  <2>2. Len(e) = L
    BY <1>1, <1>6, <1>10, <2>1
  <2>3. \A i \in 1 .. Len(e) : e[i] = c[i]
    BY <1>9, <2>1, <2>2
  <2>4. e = c
    BY <1>1, <2>1, <2>2, <2>3, SeqEqual DEF L
  <2> QED
    BY <2>4 DEF e
<1>16. d # NoDir => s[2] = Line("url", d)
  <2>1. d # NoDir => 1 \in 1 .. l /\ 1 + 1 = 2
    BY <1>2
  <2> QED
    BY <1>8, <2>1
<1> QED
  BY <1>2, <1>13, <1>14, <1>15, <1>16

\* In what people write nothing is found.
LEMMA FreeText ==
  ASSUME NoBeginnings, NEW m \in Seq(Free)
  PROVE  /\ extructSection(m, Header) = <<>> /\ ~ Contains(m, Header) /\ LinkOf(m) = NoDir
         /\ \A n \in Names : ~ Contains(m, Section(n)) /\ Told(m, n) = <<>>
<1>1. \A i \in 1 .. Len(m) : m[i] \in Free
  OBVIOUS
<1>2. \A i \in 1 .. Len(m) : ~ IsHeader(m[i], Header)
  BY <1>1, FreeLines, HeadersAreFound
<1>3. extructSection(m, Header) = <<>>
  BY <1>2, ExtructedNothing
<1>4. ~ Contains(m, Header)
  BY <1>1, FreeLines DEF Contains
<1>5. LinkOf(m) = NoDir
  <2>1. ~ (Len(<<>>) > 1)
    OBVIOUS
  <2> QED
    BY <1>3, <2>1 DEF LinkOf
<1>6. ASSUME NEW n \in Names
      PROVE  ~ Contains(m, Section(n)) /\ Told(m, n) = <<>>
  <2>1. \A i \in 1 .. Len(m) : m[i] # Section(n)
    BY <1>1, FreeLines, Kinds
  <2> QED
    BY <2>1, ToldNothing DEF Contains
<1> QED
  BY <1>3, <1>4, <1>5, <1>6

\* The lines of a memo with a section.
LEMMA FrameLines ==
  ASSUME NEW m, NEW h, NEW s, Headed(s), Frame(m, h, s), NEW i \in 1 .. Len(m)
  PROVE  \/ m[i] \in Free /\ (i < h \/ i >= h + Len(s))
         \/ i = h /\ m[i] = Header
         \/ i = h + 1 /\ Linked(s) = 1 /\ m[i].kind = "url"
         \/ /\ (i - h) - Linked(s) \in 1 .. Len(Inner(s))
            /\ m[i] = Inner(s)[(i - h) - Linked(s)] /\ m[i] \in SectionLines
<1> DEFINE L == Len(s)
           l == Linked(s)
           c == Inner(s)
           j == (i - h) + 1
<1>1. L \in Nat /\ L >= 1 /\ h \in Nat \ {0} /\ Len(m) \in Nat /\ s[1] = Header
  BY DEF Frame, Headed
<1>2. l \in {0, 1} /\ (l = 1 <=> L > 1 /\ s[2].kind = "url")
  BY DEF Linked
<1>3. Len(c) = (L - 1) - l /\ c \in Seq(SectionLines) /\ \A k \in 1 .. Len(c) : c[k] = s[(1 + l) + k]
  BY InnerLines DEF Wellformed
<1>4. CASE i < h \/ i >= h + L
  <2>1. i \in 1 .. h - 1 \/ i \in h + L .. Len(m)
    BY <1>1, <1>4
  <2> QED
    BY <1>4, <2>1 DEF Frame
<1>5. CASE ~ (i < h \/ i >= h + L)
  <2>1. j \in 1 .. L /\ (h - 1) + j = i
    BY <1>1, <1>5
  <2>2. m[i] = s[j]
    BY <2>1 DEF Frame
  <2>3. CASE j = 1
    <3>1. i = h
      BY <1>1, <2>3
    <3>2. m[i] = Header
      BY <1>1, <2>2, <2>3
    <3> QED
      BY <3>1, <3>2
  <2>4. CASE j = 2 /\ l = 1
    <3>1. i = h + 1
      BY <1>1, <2>1, <2>4
    <3>2. m[i].kind = "url"
      BY <1>2, <2>2, <2>4
    <3> QED
      BY <2>4, <3>1, <3>2
  <2>5. CASE j # 1 /\ ~ (j = 2 /\ l = 1)
    <3> DEFINE k == (i - h) - l
    <3>1. k \in 1 .. Len(c) /\ (1 + l) + k = j
      <4>1. Len(c) = (L - 1) - l /\ l \in {0, 1} /\ L \in Nat /\ h \in Nat /\ i \in Nat
        BY <1>1, <1>2, <1>3
      <4> HIDE DEF L, l, c
      <4> QED
        BY <2>1, <2>5, <4>1
    <3>2. c[k] = s[j] /\ c[k] \in SectionLines
      BY <1>3, <3>1
    <3> QED
      BY <2>2, <3>1, <3>2
  <2> QED
    BY <2>3, <2>4, <2>5
<1> QED
  BY <1>4, <1>5

\* The section is found.
LEMMA FrameFinds ==
  ASSUME NoBeginnings, NEW m, NEW h, NEW s, Headed(s), Frame(m, h, s)
  PROVE  /\ extructSection(m, Header) = s
         /\ Contains(m, Header) /\ m[h] = Header
         /\ \A i \in 1 .. Len(m) : m[i] = Header => i = h
         /\ Reaches(m, {"##"}, h, (h - 1) + Len(s))
<1> DEFINE last == (h - 1) + Len(s)
           found == SubSeq(m, h, last)
<1>1. /\ m \in Seq(Lines) /\ s \in Seq(Lines) /\ Len(s) \in Nat /\ Len(s) >= 1 /\ Len(m) \in Nat
      /\ h \in 1 .. Len(m) /\ last \in h .. Len(m)
  BY DEF Frame, Headed
<1>2. \A i \in 1 .. Len(s) : m[(h - 1) + i] = s[i]
  BY DEF Frame
<1>3. ASSUME NEW i \in 1 .. Len(m), m[i] = Header
      PROVE  i = h
  <2>1. m[i] \notin Free /\ m[i].kind # "url" /\ m[i] \notin SectionLines
    BY <1>3, Kinds, FreeLines
  <2> QED
    BY <2>1, FrameLines
<1>4. m[h] = Header
  <2>1. m[(h - 1) + 1] = s[1] /\ (h - 1) + 1 = h
    BY <1>1, <1>2
  <2> QED
    BY <2>1 DEF Headed
<1>5. ASSUME NEW i \in h + 1 .. last
      PROVE  m[i].kind \notin {"##"}
  <2>1. i \in 1 .. Len(m) /\ i # h /\ ~ (i < h \/ i >= h + Len(s))
    BY <1>1
  <2>2. m[i].kind = "url" \/ m[i] \in SectionLines
    BY <2>1, FrameLines
  <2> QED
    BY <2>2, Kinds
<1>6. last = Len(m) \/ m[last + 1].kind \in {"##"}
  <2>1. last + 1 = h + Len(s) /\ (last # Len(m) => h + Len(s) <= Len(m))
    BY <1>1
  <2>2. h + Len(s) <= Len(m) => m[h + Len(s)] = OtherHeader
    BY DEF Frame
  <2> HIDE DEF last
  <2> QED
    BY <2>1, <2>2, Kinds
<1>7. Reaches(m, {"##"}, h, last)
  BY <1>1, <1>5, <1>6 DEF Reaches
<1>8. \A i \in 1 .. Len(m) : IsHeader(m[i], Header) <=> m[i] = Header
  BY <1>1, HeadersAreFound
<1>9. extructSection(m, Header) = found
  <2>1. Header.kind = "##"
    BY Kinds
  <2>2. \A i \in 1 .. h - 1 : ~ IsHeader(m[i], Header)
    BY <1>1, <1>3, <1>8
  <2>3. IsHeader(m[h], Header)
    BY <1>1, <1>4, <1>8
  <2> QED
    BY <1>1, <1>7, <2>1, <2>2, <2>3, ExtructedSection
<1>10. found = s
  <2>1. h \in 1 .. Len(m) + 1 /\ last \in 0 .. Len(m) /\ (last - h) + 1 = Len(s)
    BY <1>1
  <2> HIDE DEF last
  <2>2. found \in Seq(Lines)
    BY <1>1, <2>1, Part
  <2>3. Len(found) = IF h <= last THEN (last - h) + 1 ELSE 0
    BY <1>1, <2>1, Part
  <2>4. \A i \in 1 .. (last - h) + 1 : found[i] = m[(h + i) - 1]
    BY <1>1, <2>1, Part
  <2> HIDE DEF found
  <2>5. ASSUME NEW i \in 1 .. Len(s)
        PROVE  found[i] = s[i]
    <3>1. (h + i) - 1 = (h - 1) + i
      BY <1>1
    <3> QED
      BY <1>2, <2>1, <2>4, <3>1
  <2>6. Len(found) = Len(s)
    BY <1>1, <2>1, <2>3
  <2>7. found = s
    BY <1>1, <2>2, <2>5, <2>6, SeqEqual
  <2> QED
    BY <2>7
<1> QED
  BY <1>1, <1>3, <1>4, <1>7, <1>9, <1>10 DEF Contains

\* The link is found.
LEMMA FrameLinks ==
  ASSUME NoBeginnings, NEW m, NEW h, NEW s, Headed(s), Frame(m, h, s)
  PROVE  LinkOf(m) = IF Linked(s) = 1 THEN s[2].title ELSE NoDir
BY FrameFinds DEF LinkOf, Linked

\* A memo tells what its section tells.
LEMMA FrameTells ==
  ASSUME NEW m, NEW h, NEW s, Headed(s), Frame(m, h, s), NEW n \in Names
  PROVE  /\ Told(m, n) = Told(Inner(s), n)
         /\ Contains(m, Section(n)) <=> Contains(Inner(s), Section(n))
<1> DEFINE c == Inner(s)
           off == h + Linked(s)
           L == Len(c)
<1>1. /\ m \in Seq(Lines) /\ Len(m) \in Nat /\ h \in Nat \ {0} /\ off \in Nat /\ off >= h
      /\ Wellformed(c) /\ L \in Nat /\ off + L = (h - 1) + Len(s) /\ off + L <= Len(m)
      /\ c \in Seq(SectionLines)
  <2>1. Wellformed(c) /\ c \in Seq(SectionLines) /\ L = (Len(s) - 1) - Linked(s)
    BY InnerLines DEF Wellformed
  <2>2. Linked(s) \in {0, 1}
    BY DEF Linked
  <2>3. /\ m \in Seq(Lines) /\ Len(m) \in Nat /\ h \in Nat \ {0} /\ Len(s) \in Nat
        /\ (h - 1) + Len(s) <= Len(m)
    BY DEF Frame, Headed
  <2>4. L \in Nat
    BY <2>1
  <2> HIDE DEF c, L
  <2>5. off \in Nat /\ off >= h
    BY <2>2, <2>3
  <2>6. off + L = (h - 1) + Len(s)
    BY <2>1, <2>2, <2>3, <2>4
  <2> HIDE DEF off
  <2> QED
    BY <2>1, <2>3, <2>4, <2>5, <2>6
<1>2. ASSUME NEW i \in 1 .. Len(m), m[i] = Section(n)
      PROVE  i - off \in 1 .. L /\ c[i - off] = Section(n)
  <2>1. m[i] \notin Free /\ m[i] # Header /\ m[i].kind # "url"
    BY <1>2, Kinds, FreeLines
  <2>2. (i - h) - Linked(s) \in 1 .. Len(Inner(s)) /\ m[i] = Inner(s)[(i - h) - Linked(s)]
    BY <2>1, FrameLines
  <2>3. (i - h) - Linked(s) = i - off
    BY <1>1 DEF Linked
  <2> QED
    BY <1>2, <2>2, <2>3
<1>3. ASSUME NEW k \in 1 .. L
      PROVE  off + k \in 1 .. Len(m) /\ m[off + k] = c[k]
  <2>1. c[k] = s[(1 + Linked(s)) + k] /\ Len(c) = (Len(s) - 1) - Linked(s)
    BY InnerLines
  <2>2. (1 + Linked(s)) + k \in 1 .. Len(s) /\ (h - 1) + ((1 + Linked(s)) + k) = off + k
    BY <1>1, <2>1 DEF Headed, Linked
  <2>3. m[off + k] = s[(1 + Linked(s)) + k]
    BY <2>2 DEF Frame
  <2>4. off + k \in 1 .. Len(m)
    BY <1>1
  <2> QED
    BY <2>1, <2>3, <2>4
<1>4. off + L = Len(m) \/ m[(off + L) + 1] = OtherHeader
  <2>1. (off + L) + 1 = h + Len(s)
    BY <1>1 DEF Headed
  <2> QED
    BY <1>1, <2>1 DEF Frame
<1> HIDE DEF off, c, L
<1>5. CASE ~ Contains(c, Section(n))
  <2>1. \A k \in 1 .. Len(c) : c[k] # Section(n)
    BY <1>5 DEF Contains
  <2>2. \A i \in 1 .. Len(m) : m[i] # Section(n)
    BY <1>2, <2>1 DEF L
  <2>3. Told(m, n) = <<>> /\ Told(c, n) = <<>> /\ ~ Contains(m, Section(n))
    BY <2>1, <2>2, ToldNothing DEF Contains
  <2> QED
    BY <1>5, <2>3 DEF c
<1>6. CASE Contains(c, Section(n))
  <2>1. PICK k \in 1 .. L : c[k] = Section(n)
    BY <1>6 DEF Contains, L
  <2> DEFINE b == Told(c, n)
  <2>2. b \in Seq(TextLines) /\ Tells(c, n, k, b)
    BY <1>1, <2>1, TellsSomething DEF L
  <2> HIDE DEF b
  <2>3. Len(b) \in Nat /\ k + Len(b) <= L
    BY <2>2 DEF Tells, L
  <2>4. Tells(m, n, off + k, b)
    <3>1. off + k \in 1 .. Len(m) /\ m[off + k] = Section(n)
      BY <1>3, <2>1
    <3>2. (off + k) + Len(b) <= Len(m)
      BY <1>1, <2>3
    <3>3. ASSUME NEW i \in 1 .. Len(b)
          PROVE  m[(off + k) + i] = b[i]
      <4>1. k + i \in 1 .. L /\ off + (k + i) = (off + k) + i
        BY <1>1, <2>3
      <4>2. m[off + (k + i)] = c[k + i]
        BY <1>3, <4>1
      <4>3. c[k + i] = b[i]
        BY <2>2 DEF Tells
      <4> QED
        BY <4>1, <4>2, <4>3
    <3>4. (off + k) + Len(b) = Len(m) \/ m[((off + k) + Len(b)) + 1].kind \in {"##", "###"}
      <4>1. CASE k + Len(b) = L
        <5>1. (off + k) + Len(b) = off + L
          BY <1>1, <2>3, <4>1
        <5> QED
          BY <1>4, <5>1, Kinds
      <4>2. CASE k + Len(b) # L
        <5>1. k + Len(b) + 1 \in 1 .. L /\ off + (k + Len(b) + 1) = ((off + k) + Len(b)) + 1
          BY <1>1, <2>3, <4>2
        <5>2. c[k + Len(b) + 1].kind \in {"##", "###"}
          BY <2>2, <4>2 DEF Tells, L
        <5>3. m[off + (k + Len(b) + 1)] = c[k + Len(b) + 1]
          BY <1>3, <5>1
        <5> QED
          BY <5>1, <5>2, <5>3
      <4> QED
        BY <4>1, <4>2
    <3> QED
      BY <3>1, <3>2, <3>3, <3>4 DEF Tells
  <2>5. ASSUME NEW i \in 1 .. (off + k) - 1, m[i] = Section(n)
        PROVE  FALSE
    <3>1. i \in 1 .. Len(m)
      BY <1>3, <2>1
    <3>2. i - off \in 1 .. L /\ c[i - off] = Section(n)
      BY <1>2, <2>5, <3>1
    <3>3. Section(n).kind = "###"
      BY Kinds
    <3>4. i - off = k
      BY <1>1, <2>1, <3>2, <3>3 DEF Wellformed, L
    <3> QED
      BY <1>1, <3>4
  <2>6. Told(m, n) = b
    <3>1. TextLines \subseteq Lines
      BY FreeLines
    <3> HIDE DEF off
    <3> DEFINE at == off + k
    <3>2. Tells(m, n, at, b) /\ \A i \in 1 .. at - 1 : m[i] # Section(n)
      BY <2>4, <2>5
    <3> HIDE DEF at
    <3> QED
      BY <1>1, <2>2, <3>1, <3>2, ToldIs
  <2>7. Contains(m, Section(n))
    BY <1>3, <2>1 DEF Contains
  <2> QED
    BY <1>6, <2>6, <2>7 DEF b, c
<1> QED
  BY <1>5, <1>6

-----------------------------------------------------------------------------
(* What a flush makes of a memo.                                             *)

\* The places where strings.ReplaceAll finds a text.
LEMMA PrefixAt ==
  ASSUME NEW S, NEW text \in Seq(S), NEW old \in Seq(S), NEW j \in 1 .. Len(text)
  PROVE  IsPrefix(old, SubSeq(text, j, Len(text))) <=>
           /\ (j - 1) + Len(old) <= Len(text)
           /\ \A i \in 1 .. Len(old) : text[(j - 1) + i] = old[i]
<1> DEFINE L == Len(text)
           lo == Len(old)
           rest == SubSeq(text, j, L)
           p == SubSeq(old, 1, lo)
           q == SubSeq(rest, 1, lo)
<1>1. L \in Nat /\ lo \in Nat /\ j \in 1 .. L + 1
  OBVIOUS
<1>2. /\ rest \in Seq(S) /\ Len(rest) = (L - j) + 1
      /\ \A i \in 1 .. (L - j) + 1 : rest[i] = text[(j + i) - 1]
  BY <1>1, LastPart
<1> HIDE DEF rest
<1>3. IsPrefix(old, rest) <=> lo <= Len(rest) /\ p = q
  BY DEF IsPrefix
<1>4. p = old
  BY SubSeqFull
<1> HIDE DEF L, lo, p
<1>5. lo <= Len(rest) <=> (j - 1) + lo <= L
  BY <1>1, <1>2
<1>6. ASSUME lo <= Len(rest)
      PROVE  old = q <=> \A i \in 1 .. lo : text[(j - 1) + i] = old[i]
  <2>1. lo \in 0 .. Len(rest)
    BY <1>1, <1>2, <1>6
  <2>2. q \in Seq(S)
    BY <1>2, <2>1, FirstPart
  <2>3. Len(q) = lo
    BY <1>2, <2>1, FirstPart
  <2>4. \A i \in 1 .. lo : q[i] = rest[i]
    BY <1>2, <2>1, FirstPart
  <2> HIDE DEF q
  <2>5. ASSUME NEW i \in 1 .. lo
        PROVE  q[i] = text[(j - 1) + i]
    <3>1. i \in 1 .. (L - j) + 1 /\ (j + i) - 1 = (j - 1) + i
      BY <1>1, <1>2, <1>6
    <3> QED
      BY <1>2, <2>4, <3>1
  <2>6. ASSUME \A i \in 1 .. lo : text[(j - 1) + i] = old[i]
        PROVE  old = q
    <3>1. \A i \in 1 .. Len(old) : old[i] = q[i]
      BY <2>5, <2>6 DEF lo
    <3> QED
      BY <2>2, <2>3, <3>1, SeqEqual DEF lo
  <2>7. ASSUME old = q
        PROVE  \A i \in 1 .. lo : text[(j - 1) + i] = old[i]
    BY <2>5, <2>7
  <2> QED
    BY <2>6, <2>7
<1> QED
  BY <1>3, <1>4, <1>5, <1>6 DEF L, lo, rest

\* It takes the only one there is.
LEMMA ReplacesTheOne ==
  ASSUME NEW S, NEW text \in Seq(S), NEW old \in Seq(S), NEW new \in Seq(S),
         NEW k \in 1 .. Len(text), (k - 1) + Len(old) <= Len(text),
         \A i \in 1 .. Len(old) : text[(k - 1) + i] = old[i],
         \A j \in 1 .. Len(text) :
           (\A i \in 1 .. Len(old) : text[(j - 1) + i] = old[i]) => j = k
  PROVE  Replace(text, old, new) = ReplaceSubSeqAt(k, new, old, text)
<1> DEFINE at == {j \in DOMAIN text : IsPrefix(old, SubSeq(text, j, Len(text)))}
<1>1. DOMAIN text = 1 .. Len(text)
  OBVIOUS
<1>2. k \in at
  BY <1>1, PrefixAt
<1>3. ASSUME NEW j \in at
      PROVE  j = k
  <2>1. j \in 1 .. Len(text) /\ IsPrefix(old, SubSeq(text, j, Len(text)))
    BY <1>1
  <2>2. \A i \in 1 .. Len(old) : text[(j - 1) + i] = old[i]
    BY <2>1, PrefixAt
  <2> QED
    BY <2>1, <2>2
<1>4. Replace(text, old, new) =
        IF at = {} THEN text ELSE ReplaceSubSeqAt(CHOOSE j \in at : TRUE, new, old, text)
  BY DEF Replace
<1> HIDE DEF at
<1>5. (CHOOSE j \in at : TRUE) = k
  BY <1>2, <1>3
<1> QED
  BY <1>2, <1>4, <1>5

\* To replace a text by itself changes nothing.
LEMMA ReplaceSame ==
  ASSUME NEW S, NEW text \in Seq(S), NEW old \in Seq(S)
  PROVE  Replace(text, old, old) = text
<1> DEFINE at == {j \in DOMAIN text : IsPrefix(old, SubSeq(text, j, Len(text)))}
           k == CHOOSE j \in at : TRUE
           r == ReplaceSubSeqAt(k, old, old, text)
           L == Len(text)
           lo == Len(old)
<1>1. Replace(text, old, old) = IF at = {} THEN text ELSE r
  BY DEF Replace
<1>2. CASE at = {}
  BY <1>1, <1>2
<1>3. CASE at # {}
  <2>1. k \in at
    BY <1>3
  <2>2. k \in 1 .. L /\ IsPrefix(old, SubSeq(text, k, L))
    BY <2>1
  <2> HIDE DEF k
  <2>3. (k - 1) + lo <= L /\ \A i \in 1 .. lo : text[(k - 1) + i] = old[i]
    BY <2>2, PrefixAt
  <2>4. L \in Nat /\ lo \in Nat /\ lo <= (L - k) + 1
    BY <2>2, <2>3
  <2>5. r \in Seq(S) /\ Replaced(r, k, old, old, text)
    BY <2>2, <2>4, ReplacedAt
  <2> HIDE DEF r
  <2>6. /\ Len(r) = (L - lo) + lo
        /\ \A i \in 1 .. k - 1 : r[i] = text[i]
        /\ \A i \in 1 .. lo : r[(k - 1) + i] = old[i]
        /\ \A i \in k + lo .. L : r[(i - lo) + lo] = text[i]
    BY <2>5 DEF Replaced
  <2> HIDE DEF L, lo
  <2>7. Len(r) = L
    BY <2>4, <2>6
  <2>8. ASSUME NEW i \in 1 .. L
        PROVE  r[i] = text[i]
    <3>1. CASE i < k
      <4>1. i \in 1 .. k - 1
        BY <2>2, <3>1
      <4> QED
        BY <2>6, <4>1
    <3>2. CASE k <= i /\ i < k + lo
      <4>1. (i - k) + 1 \in 1 .. lo /\ (k - 1) + ((i - k) + 1) = i
        BY <2>2, <2>4, <3>2
      <4>2. r[i] = old[(i - k) + 1]
        BY <2>6, <4>1
      <4>3. text[i] = old[(i - k) + 1]
        BY <2>3, <4>1
      <4> QED
        BY <4>2, <4>3
    <3>3. CASE i >= k + lo
      <4>1. i \in k + lo .. L /\ (i - lo) + lo = i
        BY <2>2, <2>4, <3>3
      <4> QED
        BY <2>6, <4>1
    <3> QED
      BY <2>2, <2>4, <3>1, <3>2, <3>3
  <2>9. r = text
    BY <2>5, <2>7, <2>8, SeqEqual DEF L
  <2> QED
    BY <1>1, <1>3, <2>9
<1> QED
  BY <1>2, <1>3

\* The section is replaced by another one.
LEMMA FrameReplaced ==
  ASSUME NEW m, NEW h, NEW old, Frame(m, h, old), NEW new, Headed(new),
         NEW r \in Seq(Lines), Replaced(r, h, new, old, m)
  PROVE  Frame(r, h, new) /\ h \in 1 .. Len(r)
<1> DEFINE L == Len(m)
           lo == Len(old)
           ln == Len(new)
<1>1. /\ L \in Nat /\ lo \in Nat /\ ln \in Nat /\ ln >= 1 /\ h \in Nat \ {0}
      /\ h <= L + 1 /\ (h - 1) + lo <= L /\ new \in Seq(Lines)
  BY DEF Frame, Headed
<1>2. /\ Len(r) = (L - lo) + ln
      /\ \A i \in 1 .. h - 1 : r[i] = m[i]
      /\ \A i \in 1 .. ln : r[(h - 1) + i] = new[i]
      /\ \A i \in h + lo .. L : r[(i - lo) + ln] = m[i]
  BY DEF Replaced
<1>3. /\ \A i \in 1 .. h - 1 : m[i] \in Free
      /\ \A i \in h + lo .. L : m[i] \in Free
      /\ h + lo <= L => m[h + lo] = OtherHeader
  BY DEF Frame
<1> HIDE DEF L, lo, ln
<1>4. h \in 1 .. Len(r) /\ (h - 1) + ln <= Len(r)
  <2>1. Len(r) = (L - lo) + ln
    BY <1>2
  <2> QED
    BY <1>1, <2>1
<1>5. ASSUME NEW i \in h + ln .. Len(r)
      PROVE  (i - ln) + lo \in h + lo .. L /\ r[i] = m[(i - ln) + lo]
  <2>1. Len(r) = (L - lo) + ln
    BY <1>2
  <2>2. (i - ln) + lo \in h + lo .. L /\ (((i - ln) + lo) - lo) + ln = i
    BY <1>1, <2>1
  <2> QED
    BY <1>2, <2>2
<1>6. h + ln <= Len(r) => r[h + ln] = OtherHeader
  <2>1. ASSUME h + ln <= Len(r)
        PROVE  r[h + ln] = OtherHeader
    <3>1. h + ln \in h + ln .. Len(r) /\ ((h + ln) - ln) + lo = h + lo
      BY <1>1, <1>4, <2>1
    <3>2. h + lo \in h + lo .. L /\ r[h + ln] = m[h + lo]
      BY <1>5, <3>1
    <3>3. h + lo <= L
      BY <1>1, <3>2
    <3> QED
      BY <1>3, <3>2, <3>3
  <2> QED
    BY <2>1
<1>7. \A i \in 1 .. h - 1 : r[i] \in Free
  BY <1>2, <1>3
<1>8. \A i \in h + ln .. Len(r) : r[i] \in Free
  BY <1>3, <1>5
<1>9. h \in 1 .. Len(r) + 1
  BY <1>4
<1> QED
  BY <1>1, <1>2, <1>4, <1>6, <1>7, <1>8, <1>9 DEF Frame, ln

\* Flush replaces the section, or adds it to a memo that has none.
LEMMA SectionReplaced ==
  ASSUME NEW m, NEW h, NEW s, Headed(s), Frame(m, h, s), NoBeginnings,
         NEW new, Headed(new), NEW r, r = Replace(m, s, new)
  PROVE  r \in Seq(Lines) /\ Replaced(r, h, new, s, m) /\ Frame(r, h, new) /\ h \in 1 .. Len(r)
<1>1. /\ m \in Seq(Lines) /\ s \in Seq(Lines) /\ new \in Seq(Lines) /\ Len(s) \in Nat /\ Len(s) >= 1
      /\ Len(m) \in Nat /\ h \in 1 .. Len(m) /\ (h - 1) + Len(s) <= Len(m) /\ s[1] = Header
  BY DEF Frame, Headed
<1>2. \A i \in 1 .. Len(s) : m[(h - 1) + i] = s[i]
  BY DEF Frame
<1>3. ASSUME NEW j \in 1 .. Len(m), \A i \in 1 .. Len(s) : m[(j - 1) + i] = s[i]
      PROVE  j = h
  <2>1. m[(j - 1) + 1] = s[1] /\ (j - 1) + 1 = j
    <3>1. 1 \in 1 .. Len(s) /\ (j - 1) + 1 = j
      BY <1>1
    <3> QED
      BY <1>3, <3>1
  <2>2. m[j] = Header
    BY <1>1, <2>1
  <2> QED
    BY <2>2, FrameFinds
<1>4. r = ReplaceSubSeqAt(h, new, s, m)
  BY <1>1, <1>2, <1>3, ReplacesTheOne
<1>5. Len(s) <= (Len(m) - h) + 1
  BY <1>1
<1>6. r \in Seq(Lines) /\ Replaced(r, h, new, s, m)
  BY <1>1, <1>4, <1>5, ReplacedAt
<1> QED
  BY <1>6, FrameReplaced

LEMMA SectionAdded ==
  ASSUME NEW m \in Seq(Free), NEW new, Headed(new), NEW r, r = m \o new
  PROVE  /\ r \in Seq(Lines) /\ Replaced(r, Len(m) + 1, new, <<>>, m)
         /\ Frame(m, Len(m) + 1, <<>>)
         /\ Frame(r, Len(m) + 1, new) /\ Len(m) + 1 \in 1 .. Len(r)
<1> DEFINE L == Len(m)
           ln == Len(new)
           h == L + 1
<1>1. m \in Seq(Lines) /\ new \in Seq(Lines) /\ L \in Nat /\ ln \in Nat
  <2>1. m \in Seq(Lines)
    BY FreeLines, SeqMonotonic
  <2> QED
    BY <2>1 DEF Headed
<1>2. r \in Seq(Lines)
  BY <1>1, ConcatProperties
<1>3. Len(r) = L + ln
  BY <1>1, ConcatProperties
<1>4. \A i \in 1 .. L + ln : r[i] = IF i <= L THEN m[i] ELSE new[i - L]
  BY <1>1, ConcatProperties
<1>5. Len(<<>>) = 0 /\ <<>> \in Seq(Lines)
  OBVIOUS
<1> HIDE DEF L, ln
<1>6. ASSUME NEW i \in 1 .. h - 1
      PROVE  r[i] = m[i]
  <2>1. i \in 1 .. L + ln /\ i <= L
    BY <1>1
  <2> QED
    BY <1>4, <2>1
<1>7. ASSUME NEW i \in 1 .. ln
      PROVE  r[(h - 1) + i] = new[i]
  <2>1. (h - 1) + i \in 1 .. L + ln /\ ~ ((h - 1) + i <= L) /\ ((h - 1) + i) - L = i
    BY <1>1
  <2> QED
    BY <1>4, <2>1
<1>8. Len(r) = (L - 0) + ln /\ h + 0 .. L = {} /\ h - 1 = L /\ ~ (h + 0 <= L) /\ h \in 1 .. L + 1
      /\ (h - 1) + 0 <= L
  BY <1>1, <1>3
<1>9. Replaced(r, h, new, <<>>, m)
  BY <1>5, <1>6, <1>7, <1>8 DEF Replaced, L, ln
<1>10. Frame(m, h, <<>>)
  <2>1. \A i \in 1 .. h - 1 : m[i] \in Free
    BY <1>8 DEF L
  <2> QED
    BY <1>1, <1>5, <1>8, <2>1 DEF Frame, L
<1> HIDE DEF h
<1>11. Frame(r, h, new) /\ h \in 1 .. Len(r)
  BY <1>2, <1>9, <1>10, FrameReplaced
<1> QED
  BY <1>2, <1>9, <1>10, <1>11 DEF h, L

-----------------------------------------------------------------------------
(* The cut.                                                                 *)

\* Of m the first k lines, and the mark of a cut.
CutOff(r, k, m) ==
  /\ r \in Seq(Lines) /\ k \in 0 .. Len(m) /\ Len(r) = k + 1
  /\ \A i \in 1 .. k : r[i] = m[i]
  /\ r[k + 1] = Line("text", Ellipsis)

LEMMA Cut ==
  ASSUME NEW m \in Seq(Lines), Len(m) >= Limit,
         NEW r, r = Abbreviated(m, Limit, Abbreviation)
  PROVE  CutOff(r, Limit - 1, m) /\ WasCut(r)
<1> DEFINE e == Line("text", Ellipsis)
           k == Limit - 1
<1>1. /\ Abbreviation \in Seq(Lines) /\ Len(Abbreviation) = 1 /\ Abbreviation[1] = e
      /\ Abbreviation = <<e>> /\ Limit \in Nat /\ Limit >= 1 /\ Len(m) \in Nat
  BY ConstantsAssumption, LineTypes DEF Abbreviation
<1>2. CASE Limit = 1
  <2>1. r = SubSeq(Abbreviation, 1, 1)
    BY <1>1, <1>2 DEF Abbreviated
  <2>2. r = Abbreviation
    BY <1>1, <2>1, SubSeqFull
  <2>3. r \in Seq(Lines) /\ Len(r) = 1 /\ r[1] = e
    BY <1>1, <2>2
  <2> HIDE DEF e
  <2>4. CutOff(r, Limit - 1, m)
    BY <1>1, <1>2, <2>3 DEF CutOff, e
  <2>5. WasCut(r)
    BY <1>2, <2>3 DEF WasCut, e
  <2> QED
    BY <1>1, <1>2, <2>4, <2>5
<1>3. CASE Limit # 1
  <2> DEFINE p == SubSeq(m, 1, k)
  <2>1. r = p \o Abbreviation
    BY <1>1, <1>3 DEF Abbreviated
  <2>2. k \in 0 .. Len(m) /\ k + 1 = Limit
    BY <1>1, <1>3
  <2> HIDE DEF k
  <2>3. p \in Seq(Lines) /\ Len(p) = k /\ \A i \in 1 .. k : p[i] = m[i]
    BY <2>2, FirstPart
  <2> HIDE DEF p, e, Abbreviation
  <2>4. p \in Seq(Lines) /\ Abbreviation \in Seq(Lines)
    BY <1>1, <2>3
  <2>5. r \in Seq(Lines)
    BY <2>1, <2>4, ConcatProperties
  <2>6. Len(r) = Len(p) + Len(Abbreviation)
    BY <2>1, <2>4, ConcatProperties
  <2>7. \A i \in 1 .. Len(p) + Len(Abbreviation) :
          r[i] = IF i <= Len(p) THEN p[i] ELSE Abbreviation[i - Len(p)]
    BY <2>1, <2>4, ConcatProperties
  <2>8. Len(r) = k + 1
    BY <1>1, <2>3, <2>6
  <2>9. ASSUME NEW i \in 1 .. k
        PROVE  r[i] = m[i]
    <3>1. i \in 1 .. Len(p) + Len(Abbreviation) /\ i <= Len(p)
      BY <1>1, <2>2, <2>3
    <3> QED
      BY <2>3, <2>7, <3>1
  <2>10. r[k + 1] = e
    <3>1. k + 1 \in 1 .. Len(p) + Len(Abbreviation) /\ ~ (k + 1 <= Len(p)) /\ (k + 1) - Len(p) = 1
      BY <1>1, <2>2, <2>3
    <3> QED
      BY <1>1, <2>7, <3>1
  <2>11. CutOff(r, k, m)
    BY <2>2, <2>5, <2>8, <2>9, <2>10 DEF CutOff, e
  <2>12. WasCut(r)
    BY <2>2, <2>8, <2>10 DEF WasCut, e
  <2> QED
    BY <1>1, <1>3, <2>11, <2>12 DEF k
<1> QED
  BY <1>1, <1>2, <1>2, <1>3

\* A cut above the section leaves what is above it, and the mark.
LEMMA CutAbove ==
  ASSUME NEW m, NEW k, NEW r, CutOff(r, k, m), \A i \in 1 .. k : m[i] \in Free
  PROVE  r \in Seq(Free)
<1>1. Line("text", Ellipsis) \in Free
  BY DEF Free, TextLines
<1>2. r \in Seq(Lines) /\ k \in Nat /\ Len(r) = k + 1
  BY DEF CutOff
<1>3. ASSUME NEW i \in 1 .. Len(r)
      PROVE  r[i] \in Free
  <2>1. CASE i = k + 1
    BY <1>1, <2>1 DEF CutOff
  <2>2. CASE i # k + 1
    <3>1. i \in 1 .. k
      BY <1>2, <2>2
    <3> QED
      BY <3>1 DEF CutOff
  <2> QED
    BY <2>1, <2>2
<1> QED
  BY <1>2, <1>3

\* A cut in the section leaves the first of its lines, and the mark.
LEMMA CutWithin ==
  ASSUME NEW m, NEW h, NEW s, Headed(s), Frame(m, h, s),
         NEW k, NEW r, CutOff(r, k, m), h <= k, k < h + Len(s)
  PROVE  \E t : CutOff(t, (k - h) + 1, s) /\ Headed(t) /\ Frame(r, h, t) /\ h \in 1 .. Len(r)
                  /\ h + Len(t) > Len(r)
<1> DEFINE e == Line("text", Ellipsis)
           j == (k - h) + 1
           t == SubSeq(r, h, k + 1)
           L == Len(s)
<1>1. /\ r \in Seq(Lines) /\ s \in Seq(Lines) /\ k \in Nat /\ Len(r) = k + 1 /\ h \in Nat \ {0}
      /\ L \in Nat /\ Len(m) \in Nat /\ (h - 1) + L <= Len(m) /\ s[1] = Header
      /\ h <= k /\ k < h + L
  BY DEF CutOff, Frame, Headed
<1>2. /\ \A i \in 1 .. k : r[i] = m[i]
      /\ r[k + 1] = e
  BY DEF CutOff
<1>3. /\ \A i \in 1 .. h - 1 : m[i] \in Free
      /\ \A i \in 1 .. L : m[(h - 1) + i] = s[i]
  BY DEF Frame
<1>4. e \in TextLines /\ e \in SectionLines /\ e.kind # "###"
  <2>1. e \in TextLines
    BY DEF TextLines
  <2> QED
    BY <2>1, Kinds
<1> HIDE DEF e, L
<1>5. j \in 1 .. L /\ j \in Nat
  BY <1>1
<1>6. t \in Seq(Lines) /\ Len(t) = j + 1 /\ \A i \in 1 .. j + 1 : t[i] = r[(h - 1) + i]
  <2>1. h \in 1 .. Len(r) + 1 /\ k + 1 \in 0 .. Len(r) /\ ((k + 1) - h) + 1 = j + 1 /\ h <= k + 1
    BY <1>1
  <2>2. t \in Seq(Lines)
    BY <1>1, <2>1, Part
  <2>3. Len(t) = IF h <= k + 1 THEN ((k + 1) - h) + 1 ELSE 0
    BY <1>1, <2>1, Part
  <2>4. \A i \in 1 .. ((k + 1) - h) + 1 : t[i] = r[(h + i) - 1]
    BY <1>1, <2>1, Part
  <2> HIDE DEF t
  <2>5. ASSUME NEW i \in 1 .. j + 1
        PROVE  t[i] = r[(h - 1) + i]
    <3>1. (h + i) - 1 = (h - 1) + i /\ i \in 1 .. ((k + 1) - h) + 1
      BY <1>1
    <3> QED
      BY <2>4, <3>1
  <2>6. Len(t) = j + 1
    BY <2>1, <2>3
  <2> QED
    BY <2>2, <2>5, <2>6
<1> HIDE DEF t
<1>7. ASSUME NEW i \in 1 .. j
      PROVE  t[i] = s[i]
  <2>1. i \in 1 .. j + 1 /\ i \in 1 .. L /\ (h - 1) + i \in 1 .. k
    BY <1>1, <1>5
  <2>2. t[i] = r[(h - 1) + i] /\ r[(h - 1) + i] = m[(h - 1) + i] /\ m[(h - 1) + i] = s[i]
    BY <1>2, <1>3, <1>6, <2>1
  <2> QED
    BY <2>2
<1>8. t[j + 1] = e
  <2>1. j + 1 \in 1 .. j + 1 /\ (h - 1) + (j + 1) = k + 1
    BY <1>1, <1>5
  <2> QED
    BY <1>2, <1>6, <2>1
<1>9. CutOff(t, j, s)
  <2>1. j \in 0 .. Len(s)
    BY <1>5 DEF L
  <2> QED
    BY <1>6, <1>7, <1>8, <2>1 DEF CutOff, e
<1>10. Headed(t)
  <2>1. t[1] = Header /\ Len(t) >= 1
    BY <1>1, <1>5, <1>6, <1>7
  <2> HIDE DEF j
  <2>2. Len(t) = j + 1 /\ j \in 1 .. L /\ L \in Nat
    BY <1>1, <1>5, <1>6
  <2>3. ASSUME NEW i \in 2 .. Len(t)
        PROVE  t[i] \in SectionLines \/ (i = 2 /\ t[i].kind = "url")
    <3>1. CASE i = j + 1
      BY <1>4, <1>8, <3>1
    <3>2. CASE i # j + 1
      <4>1. i \in 1 .. j /\ i \in 2 .. L
        BY <2>2, <3>2
      <4>2. s[i] \in SectionLines \/ (i = 2 /\ s[i].kind = "url")
        BY <4>1 DEF Headed, L
      <4> QED
        BY <1>7, <4>1, <4>2
    <3> QED
      BY <3>1, <3>2
  <2>4. ASSUME NEW i \in 2 .. Len(t), NEW n \in 2 .. Len(t), t[i] = t[n], t[i].kind = "###"
        PROVE  i = n
    <3>1. i # j + 1 /\ n # j + 1
      BY <1>4, <1>8, <2>4
    <3>2. i \in 1 .. j /\ i \in 2 .. L /\ n \in 1 .. j /\ n \in 2 .. L
      BY <2>2, <3>1
    <3>3. s[i] = s[n] /\ s[i].kind = "###"
      BY <1>7, <2>4, <3>2
    <3> QED
      BY <3>2, <3>3 DEF Headed, L
  <2> QED
    BY <1>6, <2>1, <2>3, <2>4 DEF Headed
<1>11. h \in 1 .. Len(r) /\ (h - 1) + Len(t) = Len(r)
  BY <1>1, <1>6
<1>12. Frame(r, h, t)
  <2>1. \A i \in 1 .. Len(t) : r[(h - 1) + i] = t[i]
    BY <1>6
  <2>2. ASSUME NEW i \in 1 .. h - 1
        PROVE  r[i] \in Free
    <3>1. i \in 1 .. k
      BY <1>1
    <3> QED
      BY <1>2, <1>3, <3>1
  <2>3. h + Len(t) .. Len(r) = {} /\ ~ (h + Len(t) <= Len(r)) /\ h \in 1 .. Len(r) + 1
        /\ (h - 1) + Len(t) <= Len(r)
    BY <1>1, <1>6, <1>11
  <2> QED
    BY <1>1, <1>6, <2>1, <2>2, <2>3 DEF Frame
<1>13. h + Len(t) > Len(r)
  BY <1>1, <1>6, <1>11
<1> QED
  BY <1>9, <1>10, <1>11, <1>12, <1>13

\* A cut below the section leaves all of it.
LEMMA CutBelow ==
  ASSUME NEW m, NEW h, NEW s, Headed(s), Frame(m, h, s),
         NEW k, NEW r, CutOff(r, k, m), k >= h + Len(s)
  PROVE  Frame(r, h, s) /\ h \in 1 .. Len(r)
<1> DEFINE L == Len(s)
<1>1. /\ r \in Seq(Lines) /\ s \in Seq(Lines) /\ k \in Nat /\ Len(r) = k + 1 /\ h \in Nat \ {0}
      /\ L \in Nat /\ L >= 1 /\ Len(m) \in Nat /\ k <= Len(m) /\ k >= h + L
  BY DEF CutOff, Frame, Headed
<1>2. /\ \A i \in 1 .. k : r[i] = m[i]
      /\ r[k + 1] = Line("text", Ellipsis)
  BY DEF CutOff
<1>3. /\ \A i \in 1 .. h - 1 : m[i] \in Free
      /\ \A i \in 1 .. L : m[(h - 1) + i] = s[i]
      /\ \A i \in h + L .. Len(m) : m[i] \in Free
      /\ h + L <= Len(m) => m[h + L] = OtherHeader
  BY DEF Frame
<1>4. Line("text", Ellipsis) \in Free
  BY DEF Free, TextLines
<1> HIDE DEF L
<1>5. ASSUME NEW i \in 1 .. L
      PROVE  r[(h - 1) + i] = s[i]
  <2>1. (h - 1) + i \in 1 .. k
    BY <1>1
  <2> QED
    BY <1>2, <1>3, <2>1
<1>6. ASSUME NEW i \in 1 .. h - 1
      PROVE  r[i] \in Free
  <2>1. i \in 1 .. k
    BY <1>1
  <2> QED
    BY <1>2, <1>3, <2>1
<1>7. ASSUME NEW i \in h + L .. Len(r)
      PROVE  r[i] \in Free
  <2>1. CASE i = k + 1
    BY <1>2, <1>4, <2>1
  <2>2. CASE i # k + 1
    <3>1. i \in 1 .. k /\ i \in h + L .. Len(m)
      BY <1>1, <2>2
    <3> QED
      BY <1>2, <1>3, <3>1
  <2> QED
    BY <2>1, <2>2
<1>8. r[h + L] = OtherHeader
  <2>1. h + L \in 1 .. k /\ h + L <= Len(m)
    BY <1>1
  <2> QED
    BY <1>2, <1>3, <2>1
<1>9. h \in 1 .. Len(r) + 1 /\ (h - 1) + L <= Len(r) /\ h \in 1 .. Len(r)
  BY <1>1
<1> QED
  BY <1>1, <1>5, <1>6, <1>7, <1>8, <1>9 DEF Frame, L

\* Wherever it is cut, a memo stays one.
LEMMA FramedCut ==
  ASSUME NEW m, NEW k, NEW r, CutOff(r, k, m), Framed(m)
  PROVE  Framed(r)
<1>1. k \in Nat /\ k <= Len(m) /\ r \in Seq(Lines) /\ k \in 0 .. Len(m)
  BY DEF CutOff, Framed, Frame
<1>2. CASE m \in Seq(Free)
  <2>1. \A i \in 1 .. k : m[i] \in Free
    BY <1>1, <1>2
  <2> QED
    BY <2>1, CutAbove DEF Framed
<1>3. ASSUME NEW s \in Seq(Lines), NEW h \in 1 .. Len(m), Headed(s), Frame(m, h, s)
      PROVE  Framed(r)
  <2>1. h \in Nat /\ Len(s) \in Nat
    BY <1>3 DEF Frame
  <2>2. CASE k < h
    <3>1. \A i \in 1 .. k : m[i] \in Free
      <4>1. \A i \in 1 .. k : i \in 1 .. h - 1
        BY <1>1, <2>1, <2>2
      <4> QED
        BY <1>3, <4>1 DEF Frame
    <3> QED
      BY <3>1, CutAbove DEF Framed
  <2>3. CASE h <= k /\ k < h + Len(s)
    <3>1. PICK t : Headed(t) /\ Frame(r, h, t) /\ h \in 1 .. Len(r)
      BY <1>3, <2>3, CutWithin
    <3>2. t \in Seq(Lines)
      BY <3>1 DEF Headed
    <3> QED
      BY <3>1, <3>2 DEF Framed
  <2>4. CASE k >= h + Len(s)
    BY <1>3, <2>4, CutBelow DEF Framed
  <2> QED
    BY <1>1, <2>1, <2>2, <2>3, <2>4
<1> QED
  BY <1>2, <1>3 DEF Framed

-----------------------------------------------------------------------------
(* A flush.                                                                 *)

\* What the section of the new memo tells.
NewInner(m, d) ==
  LET sections == Sections(extructSection(m, Header))
  IN IF d = NoDir THEN sections.full ELSE sections.memo

\* What a flush starts from.
LEMMA OldSection ==
  ASSUME NoBeginnings, NEW m, Framed(m), NEW old, old = extructSection(m, Header)
  PROVE  /\ m \in Seq(Lines) /\ old \in Seq(Lines) /\ Wellformed(Inner(old))
         /\ \/ m \in Seq(Free) /\ old = <<>>
            \/ Headed(old) /\ old # <<>> /\ \E h \in 1 .. Len(m) : Frame(m, h, old)
         /\ \A n \in Names : /\ Told(m, n) = Told(Inner(old), n)
                             /\ Contains(m, Section(n)) <=> Contains(Inner(old), Section(n))
<1>1. CASE m \in Seq(Free)
  <2>1. old = <<>> /\ \A n \in Names : ~ Contains(m, Section(n)) /\ Told(m, n) = <<>>
    BY <1>1, FreeText
  <2>2. Inner(old) = <<>>
    BY <2>1 DEF Inner
  <2>3. Wellformed(<<>>)
    BY DEF Wellformed
  <2>4. ASSUME NEW n \in Names
        PROVE  ~ Contains(<<>>, Section(n)) /\ Told(<<>>, n) = <<>>
    <3>1. \A i \in 1 .. Len(<<>>) : <<>>[i] # Section(n)
      OBVIOUS
    <3>2. Told(<<>>, n) = <<>>
      BY <3>1, ToldNothing
    <3> QED
      BY <3>2 DEF Contains
  <2>5. m \in Seq(Lines)
    BY <1>1, FreeLines, SeqMonotonic
  <2> QED
    BY <1>1, <2>1, <2>2, <2>3, <2>4, <2>5
<1>2. ASSUME NEW s \in Seq(Lines), NEW h \in 1 .. Len(m), Headed(s), Frame(m, h, s)
      PROVE  /\ m \in Seq(Lines) /\ old \in Seq(Lines) /\ Wellformed(Inner(old))
             /\ Headed(old) /\ old # <<>> /\ \E j \in 1 .. Len(m) : Frame(m, j, old)
             /\ \A n \in Names : /\ Told(m, n) = Told(Inner(old), n)
                                 /\ Contains(m, Section(n)) <=> Contains(Inner(old), Section(n))
  <2>1. old = s
    BY <1>2, FrameFinds
  <2>2. Headed(old) /\ Frame(m, h, old)
    BY <1>2, <2>1
  <2>3. old \in Seq(Lines) /\ old # <<>> /\ m \in Seq(Lines)
    BY <2>2 DEF Headed, Frame
  <2>4. Wellformed(Inner(old))
    BY <2>2, InnerLines
  <2>5. \A n \in Names : /\ Told(m, n) = Told(Inner(old), n)
                         /\ Contains(m, Section(n)) <=> Contains(Inner(old), Section(n))
    BY <2>2, FrameTells
  <2>6. \E j \in 1 .. Len(m) : Frame(m, j, old)
    BY <2>2
  <2> QED
    BY <2>2, <2>3, <2>4, <2>5, <2>6
<1> QED
  BY <1>1, <1>2 DEF Framed

\* The section that it writes.
LEMMA NewSectionIs ==
  ASSUME NoBeginnings, NamesHaveTexts, NEW m, Framed(m), NEW d \in Dirs \cup {NoDir},
         NEW old, old = extructSection(m, Header)
  PROVE  /\ PutInto(Sections(old).full, Sections(old).memo, Inner(old), ToSet(names))
         /\ Headed(NewSection(old, d)) /\ Inner(NewSection(old, d)) = NewInner(m, d)
         /\ Linked(NewSection(old, d)) = IF d = NoDir THEN 0 ELSE 1
         /\ d # NoDir => NewSection(old, d)[2] = Line("url", d)
<1> DEFINE full == Sections(old).full
           cut == Sections(old).memo
           c == NewInner(m, d)
           new == NewSection(old, d)
<1>1. old \in Seq(Lines) /\ Wellformed(Inner(old))
  BY OldSection
<1>2. PutInto(full, cut, Inner(old), ToSet(names))
  BY <1>1, SectionsTell
<1>3. Wellformed(full) /\ Wellformed(cut)
  BY <1>2 DEF PutInto
<1>4. c = IF d = NoDir THEN full ELSE cut
  BY DEF NewInner
<1>5. /\ d = NoDir => new = <<Header>> \o c
      /\ d # NoDir => new = <<Header>> \o (<<Line("url", d)>> \o c)
  BY <1>4 DEF NewSection
<1>6. Wellformed(c)
  BY <1>3, <1>4
<1> HIDE DEF c, new
<1>7. /\ Headed(new) /\ Inner(new) = c
      /\ Linked(new) = IF d = NoDir THEN 0 ELSE 1
      /\ d # NoDir => new[2] = Line("url", d)
  BY <1>5, <1>6, HeadedSection
<1> QED
  BY <1>2, <1>7 DEF c, new

\* Where the section is in the memo that was flushed, and in the one before.
LEMMA WholeMemoIs ==
  ASSUME NoBeginnings, NamesHaveTexts, NEW m, Framed(m), NEW d \in Dirs \cup {NoDir},
         NEW old, old = extructSection(m, Header),
         NEW new, new = NewSection(old, d),
         NEW r, r = WholeMemo(m, d)
  PROVE  /\ r \in Seq(Lines) /\ Headed(new)
         /\ \E h \in 1 .. Len(r) :
              /\ Frame(m, h, old) /\ Replaced(r, h, new, old, m) /\ Frame(r, h, new)
              /\ old = <<>> => h = Len(m) + 1
<1>1. Headed(new)
  BY NewSectionIs
<1>2. r = IF old = <<>> THEN m \o new ELSE Replace(m, old, new)
  BY DEF WholeMemo
<1>3. CASE m \in Seq(Free) /\ old = <<>>
  <2>1. r = m \o new
    BY <1>2, <1>3
  <2> HIDE DEF Frame
  <2>2. /\ r \in Seq(Lines) /\ Replaced(r, Len(m) + 1, new, <<>>, m)
        /\ Frame(m, Len(m) + 1, <<>>)
        /\ Frame(r, Len(m) + 1, new) /\ Len(m) + 1 \in 1 .. Len(r)
    BY <1>1, <1>3, <2>1, SectionAdded
  <2> QED
    BY <1>1, <1>3, <2>2
<1>4. ASSUME Headed(old), old # <<>>, NEW h \in 1 .. Len(m), Frame(m, h, old)
      PROVE  r \in Seq(Lines) /\ Replaced(r, h, new, old, m) /\ Frame(r, h, new) /\ h \in 1 .. Len(r)
  <2>1. r = Replace(m, old, new)
    BY <1>2, <1>4
  <2> QED
    BY <1>1, <1>4, <2>1, SectionReplaced
<1> QED
  BY <1>1, <1>3, <1>4, OldSection

\* What it tells, if it is not cut.
LEMMA WholeMemoTells ==
  ASSUME NoBeginnings, NamesHaveTexts, NEW m, Framed(m), NEW d \in Dirs \cup {NoDir},
         NEW r, r = WholeMemo(m, d)
  PROVE  /\ Framed(r) /\ Contains(r, Header) /\ LinkOf(r) = d
         /\ \A n \in Names : /\ Told(r, n) = Told(NewInner(m, d), n)
                             /\ Contains(r, Section(n)) <=> Contains(NewInner(m, d), Section(n))
<1> DEFINE old == extructSection(m, Header)
           new == NewSection(old, d)
<1>1. /\ Headed(new) /\ Inner(new) = NewInner(m, d)
      /\ Linked(new) = IF d = NoDir THEN 0 ELSE 1
      /\ d # NoDir => new[2] = Line("url", d)
  BY NewSectionIs
<1>2. PICK h \in 1 .. Len(r) : Frame(r, h, new)
  BY WholeMemoIs
<1> HIDE DEF new
<1>3. new \in Seq(Lines)
  BY <1>1 DEF Headed
<1>4. Framed(r)
  BY <1>1, <1>2, <1>3 DEF Framed
<1>5. Contains(r, Header)
  BY <1>1, <1>2, FrameFinds
<1>6. LinkOf(r) = d
  <2>1. LinkOf(r) = IF Linked(new) = 1 THEN new[2].title ELSE NoDir
    BY <1>1, <1>2, FrameLinks
  <2>2. Line("url", d).title = d
    BY DEF Line
  <2> QED
    BY <1>1, <2>1, <2>2
<1>7. \A n \in Names : /\ Told(r, n) = Told(Inner(new), n)
                       /\ Contains(r, Section(n)) <=> Contains(Inner(new), Section(n))
  BY <1>1, <1>2, FrameTells
<1> QED
  BY <1>1, <1>4, <1>5, <1>6, <1>7

\* The memo as it is written: all of it, or cut.
LEMMA NewMemoIs ==
  ASSUME NoBeginnings, NamesHaveTexts, NEW m, Framed(m), NEW d \in Dirs \cup {NoDir},
         NEW e, NEW r, r = NewMemo(m, e, d)
  PROVE  LET whole == WholeMemo(m, d) IN
         /\ Framed(r)
         /\ \/ Len(whole) + Trailing(m, e) <= Limit /\ r = whole
            \/ CutOff(r, Limit - 1, whole) /\ WasCut(r)
<1> DEFINE whole == WholeMemo(m, d)
<1>1. whole \in Seq(Lines) /\ Framed(whole)
  <2>1. whole \in Seq(Lines)
    BY WholeMemoIs
  <2>2. Framed(whole)
    BY WholeMemoTells
  <2> QED
    BY <2>1, <2>2
<1>2. \/ Len(whole) + Trailing(m, e) <= Limit /\ r = whole
      \/ Len(whole) >= Limit /\ r = Abbreviated(whole, Limit, Abbreviation)
  BY <1>1, CutOrNot
<1> HIDE DEF whole
<1>3. \/ Len(whole) + Trailing(m, e) <= Limit /\ r = whole
      \/ CutOff(r, Limit - 1, whole) /\ WasCut(r)
  BY <1>1, <1>2, Cut
<1>4. Framed(r)
  BY <1>1, <1>3, FramedCut
<1> QED
  BY <1>3, <1>4 DEF whole

-----------------------------------------------------------------------------
(* People write.                                                            *)

\* Two memos have the same link, and tell the same.
SameTold(m, r) ==
  /\ LinkOf(r) = LinkOf(m)
  /\ Contains(r, Header) <=> Contains(m, Header)
  /\ \A n \in Names : /\ Told(r, n) = Told(m, n)
                      /\ Contains(r, Section(n)) <=> Contains(m, Section(n))

LEMMA SameSection ==
  ASSUME NoBeginnings, NEW s, Headed(s), NEW m, NEW h, Frame(m, h, s), NEW r, NEW j, Frame(r, j, s)
  PROVE  SameTold(m, r)
<1>1. Contains(m, Header) /\ Contains(r, Header)
  BY FrameFinds
<1>2. LinkOf(m) = LinkOf(r)
  BY FrameLinks
<1>3. ASSUME NEW n \in Names
      PROVE  /\ Told(r, n) = Told(m, n)
             /\ Contains(r, Section(n)) <=> Contains(m, Section(n))
  <2>1. Told(r, n) = Told(Inner(s), n) /\ (Contains(r, Section(n)) <=> Contains(Inner(s), Section(n)))
    BY FrameTells
  <2>2. Told(m, n) = Told(Inner(s), n) /\ (Contains(m, Section(n)) <=> Contains(Inner(s), Section(n)))
    BY FrameTells
  <2> QED
    BY <2>1, <2>2
<1> QED
  BY <1>1, <1>2, <1>3 DEF SameTold

\* On top.
LEMMA FrameBehind ==
  ASSUME NEW p \in Seq(Free), NEW m, NEW h, NEW s, Headed(s), Frame(m, h, s), NEW r, r = p \o m
  PROVE  Frame(r, Len(p) + h, s) /\ Len(p) + h \in 1 .. Len(r)
<1> DEFINE lp == Len(p)
           L == Len(m)
           ls == Len(s)
           j == lp + h
<1>1. /\ p \in Seq(Lines) /\ m \in Seq(Lines) /\ s \in Seq(Lines)
      /\ lp \in Nat /\ L \in Nat /\ ls \in Nat /\ ls >= 1 /\ h \in Nat \ {0} /\ (h - 1) + ls <= L
  <2>1. p \in Seq(Lines)
    BY FreeLines, SeqMonotonic
  <2> QED
    BY <2>1 DEF Frame, Headed
<1>2. r \in Seq(Lines)
  BY <1>1, ConcatProperties
<1>3. Len(r) = lp + L
  BY <1>1, ConcatProperties
<1>4. \A i \in 1 .. lp + L : r[i] = IF i <= lp THEN p[i] ELSE m[i - lp]
  BY <1>1, ConcatProperties
<1>5. \A i \in 1 .. lp : p[i] \in Free
  OBVIOUS
<1>6. /\ \A i \in 1 .. ls : m[(h - 1) + i] = s[i]
      /\ \A i \in 1 .. h - 1 : m[i] \in Free
      /\ \A i \in h + ls .. L : m[i] \in Free
      /\ h + ls <= L => m[h + ls] = OtherHeader
  BY DEF Frame
<1> HIDE DEF lp, L, ls
<1>7. ASSUME NEW i \in 1 .. L
      PROVE  r[lp + i] = m[i]
  <2>1. lp + i \in 1 .. lp + L /\ ~ (lp + i <= lp) /\ (lp + i) - lp = i
    BY <1>1
  <2> QED
    BY <1>4, <2>1
<1>8. ASSUME NEW i \in 1 .. ls
      PROVE  r[(j - 1) + i] = s[i]
  <2>1. (h - 1) + i \in 1 .. L /\ lp + ((h - 1) + i) = (j - 1) + i
    BY <1>1
  <2> QED
    BY <1>6, <1>7, <2>1
<1>9. ASSUME NEW i \in 1 .. j - 1
      PROVE  r[i] \in Free
  <2>1. CASE i <= lp
    <3>1. i \in 1 .. lp + L /\ i \in 1 .. lp
      BY <1>1, <2>1
    <3> QED
      BY <1>4, <1>5, <2>1, <3>1
  <2>2. CASE ~ (i <= lp)
    <3>1. i - lp \in 1 .. h - 1 /\ i - lp \in 1 .. L /\ lp + (i - lp) = i
      BY <1>1, <2>2
    <3> QED
      BY <1>6, <1>7, <3>1
  <2> QED
    BY <2>1, <2>2
<1>10. ASSUME NEW i \in j + ls .. Len(r)
       PROVE  r[i] \in Free
  <2>1. i - lp \in h + ls .. L /\ i - lp \in 1 .. L /\ lp + (i - lp) = i
    BY <1>1, <1>3
  <2> QED
    BY <1>6, <1>7, <2>1
<1>11. ASSUME j + ls <= Len(r)
       PROVE  r[j + ls] = OtherHeader
  <2>1. h + ls <= L /\ h + ls \in 1 .. L /\ lp + (h + ls) = j + ls
    BY <1>1, <1>3, <1>11
  <2> QED
    BY <1>6, <1>7, <2>1
<1>12. j \in 1 .. Len(r) /\ j \in 1 .. Len(r) + 1 /\ (j - 1) + ls <= Len(r)
  BY <1>1, <1>3
<1> HIDE DEF j
<1> QED
  BY <1>1, <1>2, <1>8, <1>9, <1>10, <1>11, <1>12 DEF Frame, ls, j, lp

\* Below, under a heading.
LEMMA FrameBefore ==
  ASSUME NEW q \in Seq(Free), Len(q) >= 1, q[1] = OtherHeader,
         NEW m, NEW h, NEW s, Headed(s), Frame(m, h, s), NEW r, r = m \o q
  PROVE  Frame(r, h, s) /\ h \in 1 .. Len(r)
<1> DEFINE lq == Len(q)
           L == Len(m)
           ls == Len(s)
<1>1. /\ q \in Seq(Lines) /\ m \in Seq(Lines) /\ s \in Seq(Lines)
      /\ lq \in Nat /\ lq >= 1 /\ L \in Nat /\ ls \in Nat /\ ls >= 1
      /\ h \in Nat \ {0} /\ (h - 1) + ls <= L
  <2>1. q \in Seq(Lines)
    BY FreeLines, SeqMonotonic
  <2> QED
    BY <2>1 DEF Frame, Headed
<1>2. r \in Seq(Lines)
  BY <1>1, ConcatProperties
<1>3. Len(r) = L + lq
  BY <1>1, ConcatProperties
<1>4. \A i \in 1 .. L + lq : r[i] = IF i <= L THEN m[i] ELSE q[i - L]
  BY <1>1, ConcatProperties
<1>5. \A i \in 1 .. lq : q[i] \in Free
  OBVIOUS
<1>6. /\ \A i \in 1 .. ls : m[(h - 1) + i] = s[i]
      /\ \A i \in 1 .. h - 1 : m[i] \in Free
      /\ \A i \in h + ls .. L : m[i] \in Free
      /\ h + ls <= L => m[h + ls] = OtherHeader
  BY DEF Frame
<1> HIDE DEF lq, L, ls
<1>7. ASSUME NEW i \in 1 .. L
      PROVE  r[i] = m[i]
  <2>1. i \in 1 .. L + lq /\ i <= L
    BY <1>1
  <2> QED
    BY <1>4, <2>1
<1>8. ASSUME NEW i \in 1 .. lq
      PROVE  r[L + i] = q[i]
  <2>1. L + i \in 1 .. L + lq /\ ~ (L + i <= L) /\ (L + i) - L = i
    BY <1>1
  <2> QED
    BY <1>4, <2>1
<1>9. ASSUME NEW i \in 1 .. ls
      PROVE  r[(h - 1) + i] = s[i]
  <2>1. (h - 1) + i \in 1 .. L
    BY <1>1
  <2> QED
    BY <1>6, <1>7, <2>1
<1>10. ASSUME NEW i \in 1 .. h - 1
       PROVE  r[i] \in Free
  <2>1. i \in 1 .. L
    BY <1>1
  <2> QED
    BY <1>6, <1>7, <2>1
<1>11. ASSUME NEW i \in h + ls .. Len(r)
       PROVE  r[i] \in Free
  <2>1. CASE i <= L
    <3>1. i \in h + ls .. L /\ i \in 1 .. L
      BY <1>1, <2>1
    <3> QED
      BY <1>6, <1>7, <3>1
  <2>2. CASE ~ (i <= L)
    <3>1. i - L \in 1 .. lq /\ L + (i - L) = i
      BY <1>1, <1>3, <2>2
    <3> QED
      BY <1>5, <1>8, <3>1
  <2> QED
    BY <2>1, <2>2
<1>12. r[h + ls] = OtherHeader
  <2>1. CASE h + ls <= L
    <3>1. h + ls \in 1 .. L
      BY <1>1, <2>1
    <3> QED
      BY <1>6, <1>7, <2>1, <3>1
  <2>2. CASE ~ (h + ls <= L)
    <3>1. 1 \in 1 .. lq /\ L + 1 = h + ls
      BY <1>1, <2>2
    <3>2. r[L + 1] = q[1]
      BY <1>8, <3>1
    <3> QED
      BY <3>1, <3>2
  <2> QED
    BY <2>1, <2>2
<1>13. h \in 1 .. Len(r) /\ h \in 1 .. Len(r) + 1 /\ (h - 1) + ls <= Len(r)
  BY <1>1, <1>3
<1> QED
  BY <1>1, <1>2, <1>9, <1>10, <1>11, <1>12, <1>13 DEF Frame, ls

\* What they write is found again, and nothing else has changed.
LEMMA WrittenAbove ==
  ASSUME NoBeginnings, NEW m, Framed(m), NEW p \in Seq(Free), NEW r, r = p \o m
  PROVE  Framed(r) /\ SameTold(m, r)
<1>1. CASE m \in Seq(Free)
  <2>1. r \in Seq(Free)
    BY <1>1, ConcatProperties
  <2>2. SameTold(m, r)
    BY <1>1, <2>1, FreeText DEF SameTold
  <2> QED
    BY <2>1, <2>2 DEF Framed
<1>2. ASSUME NEW s \in Seq(Lines), NEW h \in 1 .. Len(m), Headed(s), Frame(m, h, s)
      PROVE  Framed(r) /\ SameTold(m, r)
  <2>1. Frame(r, Len(p) + h, s) /\ Len(p) + h \in 1 .. Len(r)
    BY <1>2, FrameBehind
  <2>2. SameTold(m, r)
    BY <1>2, <2>1, SameSection
  <2> QED
    BY <1>2, <2>1, <2>2 DEF Framed
<1> QED
  BY <1>1, <1>2 DEF Framed

LEMMA WrittenBelow ==
  ASSUME NoBeginnings, NEW m, Framed(m), Contains(m, Header),
         NEW q \in Seq(Free), Len(q) >= 1, q[1] = OtherHeader, NEW r, r = m \o q
  PROVE  Framed(r) /\ SameTold(m, r)
<1>1. m \notin Seq(Free)
  BY FreeText
<1>2. PICK s \in Seq(Lines), h \in 1 .. Len(m) : Headed(s) /\ Frame(m, h, s)
  BY <1>1 DEF Framed
<1>3. Frame(r, h, s) /\ h \in 1 .. Len(r)
  BY <1>2, FrameBefore
<1>4. SameTold(m, r)
  BY <1>2, <1>3, SameSection
<1> QED
  BY <1>2, <1>3, <1>4 DEF Framed

-----------------------------------------------------------------------------
(* The invariant of the flushes.                                             *)

\* An execution begins when the configuration was loaded, its texts are those of its
\* names, and a full text is somewhere if it has been uploaded to a backend.
Control ==
  /\ stage # "idle" => step = "done"
  /\ stage = "rendered" => dir = NoDir
  /\ stage \in {"uploaded", "flushed"} => (dir = NoDir <=> backend = Discard)
  /\ \A n \in Names : texts[n] # NoText <=> n \in ToSet(names)

\* What is uploaded is what the memo is about to tell, and more.
DocInv ==
  stage = "uploaded" /\ dir # NoDir =>
    docs[dir] = Sections(extructSection(memo, Header)).full

\* What the execution has reported.
Reported ==
  /\ Contains(memo, Header) /\ LinkOf(memo) = dir
  /\ \A n \in ToSet(names) : Contains(memo, Section(n)) /\ Told(memo, n) = Due(n)

ReportedInv == stage = "flushed" /\ ~ WasCut(memo) => Reported

\* The two parts of LinkCovers.
UploadedCovers ==
  stage = "flushed" /\ dir # NoDir =>
    \A n \in ToSet(names) : Told(docs[dir], n) = Body(texts[n])

Covers(text, n, doc) ==
  \/ Told(text, n) = Told(doc, n)
  \/ SizeLimit[n] # NoLimit
       /\ Told(text, n) = triming(Told(doc, n), SizeLimit[n], <<Line("text", Ellipsis)>>)

LinkedCovers ==
  LinkOf(memo) # NoDir /\ ~ WasCut(memo) =>
    \A n \in Names \ ahead : Contains(memo, Section(n)) => Covers(memo, n, docs[LinkOf(memo)])

FlushInv ==
  Framed(memo) /\ Control /\ DocInv /\ ReportedInv /\ UploadedCovers /\ LinkedCovers

LEMMA LinkCoversIs == LinkCovers <=> UploadedCovers /\ LinkedCovers
BY DEF LinkCovers, UploadedCovers, LinkedCovers, Covers

LEMMA FlushInit ==
  ASSUME NoBeginnings, Init
  PROVE  FlushInv
<1>1. memo \in Seq(Free)
  BY DEF Init
<1>2. Framed(memo) /\ LinkOf(memo) = NoDir
  BY <1>1, FreeText DEF Framed
<1>3. ToSet(names) = {}
  BY DEF Init, ToSet
<1>4. Control
  BY <1>3 DEF Init, Control
<1> QED
  BY <1>2, <1>4 DEF Init, FlushInv, DocInv, ReportedInv, UploadedCovers, LinkedCovers

\* Steps that leave the memo, the documents and what is ahead alone, while nothing is
\* reported.
LEMMA FlushBegins ==
  ASSUME FlushInv, UNCHANGED <<memo, docs, ahead>>, Control',
         stage' \in {"idle", "rendered", "failed"} \/ (stage' = "uploaded" /\ dir' = NoDir)
  PROVE  FlushInv'
<1>1. Framed(memo')
  BY DEF FlushInv
<1>2. Framed(memo)' <=> Framed(memo')
  BY DEF Framed, Frame, Headed
<1>3. LinkedCovers'
  BY DEF FlushInv, LinkedCovers, Covers
<1>4. DocInv' /\ ReportedInv' /\ UploadedCovers'
  BY DEF DocInv, ReportedInv, UploadedCovers
<1> QED
  BY <1>1, <1>2, <1>3, <1>4 DEF FlushInv

LEMMA TextsAreOfNames ==
  ASSUME NEW order \in Seq(Names), NEW t \in [ToSet(order) -> Texts],
         ToSet(names') = ToSet(order),
         texts' = [n \in Names |-> IF Contains(order, n) THEN t[n] ELSE NoText]
  PROVE  \A n \in Names : texts'[n] # NoText <=> n \in ToSet(names')
<1>1. \A n : n \in ToSet(order) <=> Contains(order, n)
  BY DEF ToSet, Contains
<1>2. \A n \in ToSet(order) : t[n] # NoText
  BY ConstantsAssumption
<1> QED
  BY <1>1, <1>2

LEMMA ExecuteFlush ==
  ASSUME Typed, FlushInv, NEW order \in Orders, NEW t \in [ToSet(order) -> Texts],
         Execute(order, t)
  PROVE  FlushInv'
<1>1. order \in Seq(Names)
  BY ConstantsAssumption
<1>2. \A n \in Names : texts'[n] # NoText <=> n \in ToSet(names')
  BY <1>1, TextsAreOfNames DEF Execute
<1>3. Control'
  BY <1>2 DEF Control, Execute, Loaded, setupVars
<1> QED
  BY <1>3, FlushBegins DEF Execute

LEMMA ExecuteAgainFlush ==
  ASSUME Typed, FlushInv, NEW t \in [ToSet(names) -> Texts], ExecuteAgain(t)
  PROVE  FlushInv'
<1>1. names \in Seq(Names) /\ ToSet(names') = ToSet(names)
  BY ExecuteAgainTyped DEF Typed, NamesHaveTexts
<1>2. \A n \in Names : texts'[n] # NoText <=> n \in ToSet(names')
  BY <1>1, TextsAreOfNames DEF ExecuteAgain
<1>3. Control'
  BY <1>2 DEF FlushInv, Control, ExecuteAgain, setupVars
<1> QED
  BY <1>3, FlushBegins DEF ExecuteAgain

LEMMA KeepFlush ==
  ASSUME FlushInv, Keep
  PROVE  FlushInv'
<1>1. Control'
  BY DEF FlushInv, Control, Keep, setupVars, ToSet
<1>2. dir' = NoDir
  BY DEF FlushInv, Control, Keep
<1> QED
  BY <1>1, <1>2, FlushBegins DEF Keep

LEMMA FlushFailsFlush ==
  ASSUME FlushInv, FlushFails
  PROVE  FlushInv'
<1>1. Control'
  BY DEF FlushInv, Control, FlushFails, setupVars, ToSet
<1> QED
  BY <1>1, FlushBegins DEF FlushFails

LEMMA LinkType ==
  ASSUME NEW m \in Seq(Lines)
  PROVE  LinkOf(m) \in Dirs \cup {NoDir}
<1> DEFINE section == extructSection(m, Header)
<1>1. section \in Seq(Lines)
  BY ExtructType
<1>2. LinkOf(m) = IF Len(section) > 1 /\ section[2].kind = "url" THEN section[2].title ELSE NoDir
  BY DEF LinkOf
<1>3. \A line \in Lines : line.kind = "url" => line.title \in Dirs
  BY DEF Lines, Header, OtherHeader, Section, Line
<1> HIDE DEF section
<1>4. Len(section) > 1 => section[2] \in Lines
  BY <1>1
<1> QED
  BY <1>2, <1>3, <1>4

\* The sections depend on the names and their texts.
LEMMA SectionsStay ==
  ASSUME UNCHANGED <<memo, names, texts>>
  PROVE  (Sections(extructSection(memo, Header)).full)' = Sections(extructSection(memo, Header)).full
BY DEF Sections, Put

LEMMA UploadFlush ==
  ASSUME NoBeginnings, Typed, FlushInv, NEW d \in Dirs, Upload(d)
  PROVE  FlushInv'
<1> DEFINE old == extructSection(memo, Header)
           full == Sections(old).full
<1>1. /\ memo \in Seq(Lines) /\ Framed(memo) /\ NamesHaveTexts /\ docs \in [Dirs -> Seq(Lines)]
      /\ names \in Seq(Names) /\ NoDir \notin Dirs
  BY ConstantsAssumption DEF Typed, MemoTypeOK, FlushInv
<1>2. docs' = [docs EXCEPT ![d] = full] /\ dir' = d /\ stage' = "uploaded"
      /\ memo' = memo /\ names' = names /\ texts' = texts /\ backend' = backend /\ step' = step
      /\ ahead' = (IF d = LinkOf(memo) THEN ToSet(names) ELSE ahead) /\ backend # Discard
      /\ stage = "rendered"
  BY DEF Upload, setupVars
<1>3. Control'
  BY <1>1, <1>2 DEF FlushInv, Control
<1>4. DocInv'
  <2>1. (Sections(extructSection(memo, Header)).full)' = full
    BY <1>2, SectionsStay
  <2>2. docs'[d] = full
    BY <1>1, <1>2
  <2> HIDE DEF full
  <2> QED
    BY <1>2, <2>1, <2>2 DEF DocInv
<1>5. Framed(memo)'
  BY <1>1, <1>2 DEF Framed, Frame, Headed
<1>6. ReportedInv' /\ UploadedCovers'
  BY <1>2 DEF ReportedInv, UploadedCovers
<1>7. PutInto(full, Sections(old).memo, Inner(old), ToSet(names))
  BY <1>1, NewSectionIs
<1>8. \A n \in Names : Told(memo, n) = Told(Inner(old), n)
  BY <1>1, OldSection
<1> HIDE DEF full, old
<1>9. LinkedCovers'
  <2>1. CASE d = LinkOf(memo)
    <3>1. \A n \in Names \ ToSet(names) : Told(full, n) = Told(memo, n)
      BY <1>7, <1>8 DEF PutInto
    <3>2. docs'[LinkOf(memo)] = full
      BY <1>1, <1>2, <2>1
    <3>3. ahead' = ToSet(names)
      BY <1>2, <2>1
    <3> QED
      BY <1>2, <3>1, <3>2, <3>3 DEF LinkedCovers, Covers
  <2>2. CASE d # LinkOf(memo)
    <3>1. LinkOf(memo) # NoDir => docs'[LinkOf(memo)] = docs[LinkOf(memo)]
      BY <1>1, <1>2, <2>2, LinkType
    <3>2. ahead' = ahead
      BY <1>2, <2>2
    <3> QED
      BY <1>2, <3>1, <3>2 DEF FlushInv, LinkedCovers, Covers
  <2> QED
    BY <2>1, <2>2
<1> QED
  BY <1>3, <1>4, <1>5, <1>6, <1>9 DEF FlushInv

LEMMA UpdateFlush ==
  ASSUME NoBeginnings, Typed, FlushInv, Update
  PROVE  FlushInv'
<1> DEFINE old == extructSection(memo, Header)
           full == Sections(old).full
           cut == Sections(old).memo
           start == Inner(old)
           c == NewInner(memo, dir)
           whole == WholeMemo(memo, dir)
<1>1. /\ memo \in Seq(Lines) /\ Framed(memo) /\ NamesHaveTexts /\ dir \in Dirs \cup {NoDir}
      /\ ToSet(names) \subseteq Names
  BY DEF Typed, MemoTypeOK, FlushInv, NamesHaveTexts, ToSet
<1>2. /\ memo' = NewMemo(memo, newline, dir) /\ ahead' = {} /\ stage' = "flushed" /\ stage = "uploaded"
      /\ docs' = docs /\ names' = names /\ texts' = texts /\ dir' = dir
      /\ backend' = backend /\ step' = step
  BY DEF Update, setupVars
<1>3. dir = NoDir <=> backend = Discard
  BY <1>2 DEF FlushInv, Control
<1>4. dir # NoDir => docs[dir] = full
  BY <1>2 DEF FlushInv, DocInv
<1>5. PutInto(full, cut, start, ToSet(names))
  BY <1>1, NewSectionIs
<1>6. c = IF dir = NoDir THEN full ELSE cut
  BY DEF NewInner
<1>7. /\ Contains(whole, Header) /\ LinkOf(whole) = dir
      /\ \A n \in Names : /\ Told(whole, n) = Told(c, n)
                          /\ Contains(whole, Section(n)) <=> Contains(c, Section(n))
  BY <1>1, WholeMemoTells
<1>8. Framed(memo') /\ (~ WasCut(memo') => memo' = whole)
  BY <1>1, <1>2, NewMemoIs
<1> HIDE DEF whole, c, full, cut, start, old
<1>9. \A n \in ToSet(names) : Due(n) = IF backend = Discard THEN Body(texts[n]) ELSE Trimmed(n, texts[n])
  BY DEF Due
<1>10. \A n \in ToSet(names) : Contains(c, Section(n)) /\ Told(c, n) = Due(n)
  BY <1>1, <1>3, <1>5, <1>6, <1>9 DEF PutInto
<1>11. Framed(memo)'
  BY <1>8 DEF Framed, Frame, Headed
<1>12. Control'
  BY <1>2 DEF FlushInv, Control
<1>13. DocInv'
  BY <1>2 DEF DocInv
<1>14. ReportedInv'
  <2>1. ASSUME NEW n
        PROVE  Due(n)' = Due(n)
    BY <1>2 DEF Due
  <2>2. ASSUME ~ WasCut(memo')
        PROVE  Reported'
    <3>1. memo' = whole
      BY <1>8, <2>2
    <3>2. Contains(memo', Header) /\ LinkOf(memo') = dir'
      BY <1>2, <1>7, <3>1
    <3>3. ASSUME NEW n \in ToSet(names')
          PROVE  Contains(memo', Section(n)) /\ Told(memo', n) = Due(n)'
      <4>1. n \in ToSet(names) /\ n \in Names
        BY <1>1, <1>2
      <4>2. Told(whole, n) = Told(c, n) /\ (Contains(whole, Section(n)) <=> Contains(c, Section(n)))
        BY <1>7, <4>1
      <4> QED
        BY <1>10, <2>1, <3>1, <4>1, <4>2
    <3> QED
      BY <3>2, <3>3 DEF Reported
  <2> QED
    BY <2>2 DEF ReportedInv
<1>15. UploadedCovers'
  <2>1. \A n \in ToSet(names) : Told(full, n) = Body(texts[n])
    BY <1>1, <1>5 DEF PutInto
  <2> QED
    BY <1>2, <1>4, <2>1 DEF UploadedCovers
<1>16. LinkedCovers'
  <2>1. ASSUME ~ WasCut(memo'), dir # NoDir, NEW n \in Names
        PROVE  Covers(memo', n, full)
    <3>1. Told(memo', n) = Told(cut, n)
      BY <1>6, <1>7, <1>8, <2>1
    <3>2. CASE n \in ToSet(names)
      <4>1. Told(full, n) = Body(texts[n]) /\ Told(cut, n) = Trimmed(n, texts[n])
        BY <1>5, <3>2 DEF PutInto
      <4> QED
        BY <3>1, <4>1 DEF Covers, Trimmed
    <3>3. CASE n \notin ToSet(names)
      <4>1. Told(full, n) = Told(cut, n)
        BY <1>5, <3>3 DEF PutInto
      <4> QED
        BY <3>1, <4>1 DEF Covers
    <3> QED
      BY <3>2, <3>3
  <2>2. ~ WasCut(memo') => LinkOf(memo') = dir
    BY <1>7, <1>8
  <2> QED
    BY <1>2, <1>4, <2>1, <2>2 DEF LinkedCovers, Covers
<1> QED
  BY <1>11, <1>12, <1>13, <1>14, <1>15, <1>16 DEF FlushInv

\* People write when no flush is under way, and as long as there is place.
LEMMA WriteFlush ==
  ASSUME Typed, FlushInv, NEW text \in Seq(Lines), Framed(text), SameTold(memo, text),
         Len(memo) < Len(text), NEW e \in BOOLEAN, Write(text, e)
  PROVE  FlushInv'
<1>1. memo \in Seq(Lines) /\ Limit \in Nat /\ ToSet(names) \subseteq Names
  BY ConstantsAssumption DEF Typed, MemoTypeOK, NamesHaveTexts, ToSet
<1>2. memo' = text /\ Len(text) + (IF e THEN 1 ELSE 0) <= Limit
      /\ stage \in {"idle", "flushed", "failed"}
      /\ backend' = backend /\ step' = step
      /\ UNCHANGED <<docs, names, texts, stage, dir, ahead>>
  BY DEF Write, setupVars
<1>3. ~ WasCut(memo)
  <2>1. Len(memo) # Limit
    <3>1. Len(memo) \in Nat /\ Len(text) \in Nat
      BY <1>1
    <3> QED
      BY <1>1, <1>2, <3>1
  <2> QED
    BY <2>1 DEF WasCut
<1>4. Framed(memo)'
  BY <1>2 DEF Framed, Frame, Headed
<1>5. Control' /\ DocInv' /\ UploadedCovers'
  BY <1>2 DEF FlushInv, Control, DocInv, UploadedCovers
<1>6. ReportedInv'
  <2>1. ASSUME NEW n
        PROVE  Due(n)' = Due(n)
    BY <1>2 DEF Due
  <2>2. stage = "flushed" => Reported
    BY <1>3 DEF FlushInv, ReportedInv
  <2>3. ASSUME stage = "flushed"
        PROVE  Reported'
    <3>1. Contains(memo', Header) /\ LinkOf(memo') = dir'
      BY <1>2, <2>2, <2>3 DEF Reported, SameTold
    <3>2. ASSUME NEW n \in ToSet(names')
          PROVE  Contains(memo', Section(n)) /\ Told(memo', n) = Due(n)'
      <4>1. n \in ToSet(names) /\ n \in Names
        BY <1>1, <1>2
      <4>2. Contains(memo, Section(n)) /\ Told(memo, n) = Due(n)
        BY <2>2, <2>3, <4>1 DEF Reported
      <4> QED
        BY <1>2, <2>1, <4>1, <4>2 DEF SameTold
    <3> QED
      BY <3>1, <3>2 DEF Reported
  <2> QED
    BY <1>2, <2>3 DEF ReportedInv
<1>7. LinkedCovers'
  <2>1. LinkOf(memo') = LinkOf(memo)
    BY <1>2 DEF SameTold
  <2>2. ASSUME LinkOf(memo) # NoDir, NEW n \in Names \ ahead, Contains(memo', Section(n))
        PROVE  Covers(memo', n, docs[LinkOf(memo)])
    <3>1. Told(memo', n) = Told(memo, n) /\ Contains(memo, Section(n))
      BY <1>2, <2>2 DEF SameTold
    <3>2. Covers(memo, n, docs[LinkOf(memo)])
      BY <1>3, <2>2, <3>1 DEF FlushInv, LinkedCovers
    <3> QED
      BY <3>1, <3>2 DEF Covers
  <2> QED
    BY <1>2, <2>1, <2>2 DEF LinkedCovers, Covers
<1> QED
  BY <1>4, <1>5, <1>6, <1>7 DEF FlushInv

-----------------------------------------------------------------------------
(* A flush of what is there.                                                 *)

\* A section that tells what is put is left as it is.
LEMMA PutFullAgain ==
  ASSUME NoBeginnings, NEW text, Wellformed(text), NEW n \in Names, texts[n] \in Texts,
         Contains(text, Section(n)), Told(text, n) = Body(texts[n]),
         NEW s, s.full = text
  PROVE  Put(s, n).full = text
<1> DEFINE w == Written(n, Body(texts[n]))
<1>1. extructSection(text, Section(n)) = w
  BY ExtructedContent DEF Written
<1>2. w \in Seq(SectionLines) /\ w # <<>>
  <2>1. Body(texts[n]) \in Seq(TextLines)
    BY TrimmedIsShorter
  <2>2. w \in Seq(SectionLines) /\ Len(w) = Len(Body(texts[n])) + 1 /\ Len(Body(texts[n])) \in Nat
    BY <2>1, WrittenLines
  <2> HIDE DEF w
  <2> QED
    BY <2>2
<1>3. extructSection(text, Section(n)) # <<>> =>
        Put(s, n).full = Replace(text, extructSection(text, Section(n)), w)
  BY DEF Put, Written
<1> HIDE DEF w
<1>4. text \in Seq(SectionLines)
  BY DEF Wellformed
<1> QED
  BY <1>1, <1>2, <1>3, <1>4, ReplaceSame

LEMMA PutCutAgain ==
  ASSUME NoBeginnings, NEW full, NEW start, NEW done, PutInto(full, start, start, done),
         NEW n \in Names, texts[n] \in Texts,
         Contains(start, Section(n)), Told(start, n) = Trimmed(n, texts[n]),
         NEW s, s.full = full, s.memo = start
  PROVE  Put(s, n).memo = start
<1> DEFINE body == Body(texts[n])
           trimmed == Trimmed(n, texts[n])
           of == Told(full, n)
<1>1. body \in Seq(TextLines) /\ trimmed \in Seq(TextLines) /\ Len(trimmed) <= Len(body)
  BY TrimmedIsShorter
<1>2. Contains(full, Section(n)) /\ (of = body \/ of = trimmed)
  BY DEF PutInto
<1>3. Wellformed(full) /\ Wellformed(start)
  BY DEF PutInto
<1>4. extructSection(full, Section(n)) = Written(n, of)
  BY <1>2, <1>3, ExtructedContent DEF Written
<1>5. extructSection(full, Section(n)) # <<>> =>
        Put(s, n).memo = Replace(start, extructSection(full, Section(n)), Written(n, trimmed))
  BY DEF Put, Written
<1> HIDE DEF of
<1>6. Written(n, of) \in Seq(SectionLines) /\ Written(n, of) # <<>>
  <2>1. of \in Seq(TextLines) /\ Len(of) \in Nat
    BY <1>1, <1>2
  <2>2. Written(n, of) \in Seq(SectionLines) /\ Len(Written(n, of)) = Len(of) + 1
    BY <2>1, WrittenLines
  <2> QED
    BY <2>1, <2>2
<1>7. Put(s, n).memo = Replace(start, Written(n, of), Written(n, trimmed))
  BY <1>4, <1>5, <1>6
<1>8. CASE of = trimmed
  <2>1. start \in Seq(SectionLines)
    BY <1>3 DEF Wellformed
  <2> HIDE DEF trimmed
  <2> QED
    BY <1>6, <1>7, <1>8, <2>1, ReplaceSame
<1>9. CASE of # trimmed
  <2>1. PICK k \in 1 .. Len(start) : start[k] = Section(n)
    BY DEF Contains
  <2>2. Tells(start, n, k, trimmed)
    BY <1>3, <2>1, TellsSomething
  <2>3. of = body
    BY <1>2, <1>9
  <2> HIDE DEF body, trimmed
  <2> QED
    BY <1>1, <1>3, <1>7, <1>9, <2>2, <2>3, ReplaceFinds
<1> QED
  BY <1>8, <1>9

\* After the loop over the names both texts are what they were, if that told it already.
LEMMA SectionsSame ==
  ASSUME NoBeginnings, NamesHaveTexts, NEW old \in Seq(Lines), Wellformed(Inner(old)),
         \A n \in ToSet(names) : Contains(Inner(old), Section(n))
  PROVE  /\ (\A n \in ToSet(names) : Told(Inner(old), n) = Body(texts[n]))
              => Sections(old).full = Inner(old)
         /\ (\A n \in ToSet(names) : Told(Inner(old), n) = Trimmed(n, texts[n]))
              => Sections(old).memo = Inner(old)
<1> DEFINE N == Len(names)
           start == Inner(old)
<1>1. N \in Nat /\ \A i \in 1 .. N : names[i] \in ToSet(names) /\ names[i] \in Names /\ texts[names[i]] \in Texts
  BY DEF NamesHaveTexts, ToSet
<1>2. PICK round \in [0 .. N -> Both(Lines)] :
        /\ round[0] = [full |-> Inner(old), memo |-> Inner(old)]
        /\ \A i \in 1 .. N : round[i] = Put(round[i - 1], names[i])
        /\ Sections(old) = round[N]
        /\ \A i \in 0 .. N :
             PutInto(round[i].full, round[i].memo, Inner(old), {names[j] : j \in 1 .. i})
  BY RoundsTell
<1>3. round[0].full = start /\ round[0].memo = start
  BY <1>2
<1>4. Sections(old) = round[N]
  BY <1>2
<1>5. \A i \in 1 .. N : round[i] = Put(round[i - 1], names[i])
  BY <1>2
<1>6. \A i \in 0 .. N : PutInto(round[i].full, round[i].memo, start, {names[j] : j \in 1 .. i})
  BY <1>2
<1>7. Wellformed(start) /\ \A n \in ToSet(names) : Contains(start, Section(n))
  OBVIOUS
<1> HIDE DEF N
<1>8. ASSUME \A n \in ToSet(names) : Told(start, n) = Body(texts[n])
      PROVE  round[N].full = start
  <2> DEFINE T == {i \in 0 .. N : round[i].full = start}
  <2> HIDE DEF start
  <2>1. 0 \in T
    BY <1>1, <1>3
  <2>2. ASSUME NEW i \in 0 .. N - 1, i \in T
        PROVE  i + 1 \in T
    <3>1. i + 1 \in 1 .. N /\ (i + 1) - 1 = i /\ i + 1 \in 0 .. N
      BY <1>1
    <3> DEFINE n == names[i + 1]
               s == round[i]
    <3>2. n \in ToSet(names) /\ n \in Names /\ texts[n] \in Texts
      BY <1>1, <3>1
    <3>3. s.full = start /\ Contains(start, Section(n)) /\ Told(start, n) = Body(texts[n])
      BY <1>7, <1>8, <2>2, <3>2
    <3>4. round[i + 1] = Put(s, n)
      BY <1>5, <3>1
    <3> HIDE DEF n, s
    <3>5. Put(s, n).full = start
      BY <1>7, <3>2, <3>3, PutFullAgain
    <3> QED
      BY <3>1, <3>4, <3>5
  <2> HIDE DEF T
  <2>3. 0 .. N \subseteq T
    BY <1>1, <2>1, <2>2, InductUpTo
  <2> QED
    BY <1>1, <2>3 DEF T
<1>9. ASSUME \A n \in ToSet(names) : Told(start, n) = Trimmed(n, texts[n])
      PROVE  round[N].memo = start
  <2> DEFINE T == {i \in 0 .. N : round[i].memo = start}
  <2> HIDE DEF start
  <2>1. 0 \in T
    BY <1>1, <1>3
  <2>2. ASSUME NEW i \in 0 .. N - 1, i \in T
        PROVE  i + 1 \in T
    <3>1. i + 1 \in 1 .. N /\ (i + 1) - 1 = i /\ i + 1 \in 0 .. N /\ i \in 0 .. N
      BY <1>1
    <3> DEFINE n == names[i + 1]
               s == round[i]
               done == {names[j] : j \in 1 .. i}
    <3>2. n \in ToSet(names) /\ n \in Names /\ texts[n] \in Texts
      BY <1>1, <3>1
    <3>3. s.memo = start /\ Contains(start, Section(n)) /\ Told(start, n) = Trimmed(n, texts[n])
      BY <1>7, <1>9, <2>2, <3>2
    <3>4. round[i + 1] = Put(s, n)
      BY <1>5, <3>1
    <3>5. PutInto(s.full, s.memo, start, done)
      BY <1>6, <3>1
    <3> HIDE DEF n, s, done
    <3>6. PutInto(s.full, start, start, done)
      BY <3>3, <3>5
    <3>7. Put(s, n).memo = start
      BY <3>2, <3>3, <3>6, PutCutAgain
    <3> QED
      BY <3>1, <3>4, <3>7
  <2> HIDE DEF T
  <2>3. 0 .. N \subseteq T
    BY <1>1, <2>1, <2>2, InductUpTo
  <2> QED
    BY <1>1, <2>3 DEF T
<1> HIDE DEF start
<1>10. Sections(old).full = round[N].full /\ Sections(old).memo = round[N].memo
  BY <1>4
<1> QED
  BY <1>8, <1>9, <1>10 DEF start

\* A section is made of its header, its link, and what is inside.
LEMMA SectionMade ==
  ASSUME NEW s, Headed(s), NEW t, Headed(t), Inner(s) = Inner(t), Linked(s) = Linked(t),
         Linked(s) = 1 => s[2] = t[2]
  PROVE  s = t
<1> DEFINE l == Linked(s)
           c == Inner(s)
           k == Len(c)
<1>1. l \in {0, 1}
  BY DEF Linked
<1>2. s \in Seq(Lines) /\ t \in Seq(Lines) /\ s[1] = t[1] /\ k \in Nat
  <2>1. c \in Seq(SectionLines)
    BY InnerLines DEF Wellformed
  <2> HIDE DEF c
  <2> QED
    BY <2>1 DEF Headed
<1>3. k = (Len(s) - 1) - l /\ \A i \in 1 .. k : c[i] = s[(1 + l) + i]
  BY InnerLines
<1>4. k = (Len(t) - 1) - l /\ \A i \in 1 .. k : c[i] = t[(1 + l) + i]
  BY InnerLines
<1>5. l = 1 => s[2] = t[2]
  OBVIOUS
<1> HIDE DEF l, c, k
<1>6. Len(s) \in Nat /\ Len(t) \in Nat
  BY <1>2
<1>7. Len(s) = (1 + l) + k /\ Len(t) = (1 + l) + k
  BY <1>1, <1>2, <1>3, <1>4, <1>6
<1>8. ASSUME NEW i \in 1 .. Len(s)
      PROVE  s[i] = t[i]
  <2>1. CASE i = 1
    BY <1>2, <2>1
  <2>2. CASE i = 2 /\ l = 1
    BY <1>5, <2>2
  <2>3. CASE ~ (i <= 1 + l)
    <3> DEFINE j == i - (1 + l)
    <3>1. j \in 1 .. k /\ (1 + l) + j = i
      BY <1>1, <1>2, <1>7, <2>3
    <3> HIDE DEF j
    <3>2. c[j] = s[(1 + l) + j] /\ c[j] = t[(1 + l) + j]
      BY <1>3, <1>4, <3>1
    <3> QED
      BY <3>1, <3>2
  <2> QED
    BY <1>1, <2>1, <2>2, <2>3
<1> QED
  BY <1>2, <1>7, <1>8, SeqEqual

\* The section of a memo that shows what is due is the one that a flush writes.
LEMMA SectionWritten ==
  ASSUME NoBeginnings, NamesHaveTexts, Framed(memo), dir \in Dirs \cup {NoDir},
         dir = NoDir <=> backend = Discard, Reported,
         NEW old, old = extructSection(memo, Header)
  PROVE  old # <<>> /\ NewSection(old, dir) = old
<1> DEFINE new == NewSection(old, dir)
<1>1. /\ memo \in Seq(Lines) /\ old \in Seq(Lines) /\ Wellformed(Inner(old))
      /\ \/ memo \in Seq(Free) /\ old = <<>>
         \/ Headed(old) /\ old # <<>> /\ \E h \in 1 .. Len(memo) : Frame(memo, h, old)
      /\ \A n \in Names : /\ Told(memo, n) = Told(Inner(old), n)
                          /\ Contains(memo, Section(n)) <=> Contains(Inner(old), Section(n))
  BY OldSection
<1>2. Headed(old) /\ old # <<>> /\ \E h \in 1 .. Len(memo) : Frame(memo, h, old)
  BY <1>1, FreeText DEF Reported
<1>3. PICK h \in 1 .. Len(memo) : Frame(memo, h, old)
  BY <1>2
<1>4. dir = IF Linked(old) = 1 THEN old[2].title ELSE NoDir
  BY <1>2, <1>3, FrameLinks DEF Reported
<1>5. Linked(old) = 1 => old[2] \in Lines /\ old[2].kind = "url"
  BY <1>1 DEF Linked
<1>6. \A line \in Lines : line.kind = "url" => line.title \in Dirs /\ line = Line("url", line.title)
  BY DEF Lines, Header, OtherHeader, Section, Line
<1>7. Linked(old) = 1 => dir # NoDir /\ old[2] = Line("url", dir)
  BY <1>4, <1>5, <1>6, ConstantsAssumption
<1>8. Linked(old) = 0 => dir = NoDir
  BY <1>4
<1>9. Linked(old) \in {0, 1}
  BY DEF Linked
<1>10. \A n \in ToSet(names) :
         /\ n \in Names /\ Contains(Inner(old), Section(n)) /\ Told(Inner(old), n) = Due(n)
  BY <1>1 DEF Reported, NamesHaveTexts, ToSet
<1>11. NewInner(memo, dir) = Inner(old)
  <2>1. dir = NoDir => Sections(old).full = Inner(old)
    <3>1. dir = NoDir => \A n \in ToSet(names) : Told(Inner(old), n) = Body(texts[n])
      BY <1>10 DEF Due
    <3> QED
      BY <1>1, <1>10, <3>1, SectionsSame
  <2>2. dir # NoDir => Sections(old).memo = Inner(old)
    <3>1. dir # NoDir => \A n \in ToSet(names) : Told(Inner(old), n) = Trimmed(n, texts[n])
      BY <1>10 DEF Due
    <3> QED
      BY <1>1, <1>10, <3>1, SectionsSame
  <2> QED
    BY <2>1, <2>2 DEF NewInner
<1>12. /\ Headed(new) /\ Inner(new) = NewInner(memo, dir)
       /\ Linked(new) = IF dir = NoDir THEN 0 ELSE 1
       /\ dir # NoDir => new[2] = Line("url", dir)
  BY NewSectionIs
<1> HIDE DEF new
<1>13. Linked(new) = Linked(old) /\ (Linked(new) = 1 => new[2] = old[2])
  BY <1>7, <1>8, <1>9, <1>12
<1>14. new = old
  BY <1>2, <1>11, <1>12, <1>13, SectionMade
<1> QED
  BY <1>2, <1>14 DEF new

LEMMA FlushedAgain ==
  ASSUME NoBeginnings, Typed, FlushInv
  PROVE  FlushIsIdempotent
<1> SUFFICES ASSUME stage = "flushed", ~ WasCut(memo),
                    Len(memo) + Trailing(memo, newline) <= Limit
             PROVE  NewMemo(memo, newline, dir) = memo
  BY DEF FlushIsIdempotent
<1> DEFINE old == extructSection(memo, Header)
           new == NewSection(old, dir)
<1>1. /\ memo \in Seq(Lines) /\ Framed(memo) /\ NamesHaveTexts /\ dir \in Dirs \cup {NoDir}
      /\ dir = NoDir <=> backend = Discard
      /\ Reported
  BY DEF Typed, MemoTypeOK, FlushInv, Control, ReportedInv
<1>2. old # <<>> /\ new = old
  BY <1>1, SectionWritten
<1>3. WholeMemo(memo, dir) = IF old = <<>> THEN memo \o new ELSE Replace(memo, old, new)
  BY DEF WholeMemo
<1>4. old \in Seq(Lines)
  BY <1>1, ExtructType
<1> HIDE DEF old, new
<1>5. Replace(memo, old, old) = memo
  BY <1>1, <1>4, ReplaceSame
<1>6. WholeMemo(memo, dir) = memo
  BY <1>2, <1>3, <1>5
<1> QED
  BY <1>6 DEF NewMemo

LEMMA SetupFlush ==
  ASSUME FlushInv, SetupStep, UNCHANGED memoVars
  PROVE  FlushInv'
<1>1. step # "done"
  BY DEF SetupStep, NewClient, Content, DecodeAttribute, EndOfLoop, Check, NewViewer
<1>2. stage = "idle"
  BY <1>1 DEF FlushInv, Control
<1>3. UNCHANGED <<memo, docs, ahead, names, texts, stage, dir>>
  BY DEF memoVars
<1>4. Control'
  BY <1>2, <1>3 DEF FlushInv, Control
<1> QED
  BY <1>2, <1>3, <1>4, FlushBegins

LEMMA WriteAboveFlush ==
  ASSUME NoBeginnings, Typed, FlushInv, NEW p \in Seq(Free), Len(p) >= 1,
         NEW e \in BOOLEAN, Write(p \o memo, e)
  PROVE  FlushInv'
<1> DEFINE text == p \o memo
<1>1. memo \in Seq(Lines) /\ Framed(memo) /\ p \in Seq(Lines)
  <2>1. p \in Seq(Lines)
    BY FreeLines, SeqMonotonic
  <2> QED
    BY <2>1 DEF Typed, MemoTypeOK, FlushInv
<1>2. text \in Seq(Lines) /\ Len(text) = Len(p) + Len(memo)
  BY <1>1, ConcatProperties
<1>3. Framed(text) /\ SameTold(memo, text)
  BY <1>1, WrittenAbove
<1>4. Len(memo) < Len(text)
  <2>1. Len(memo) \in Nat /\ Len(p) \in Nat
    BY <1>1
  <2> QED
    BY <1>2, <2>1
<1>5. Write(text, e)
  OBVIOUS
<1> HIDE DEF text
<1> QED
  BY <1>2, <1>3, <1>4, <1>5, WriteFlush

LEMMA WriteBelowFlush ==
  ASSUME NoBeginnings, Typed, FlushInv, NEW q \in Seq(Free), Len(q) >= 1, q[1] = OtherHeader,
         Contains(memo, Header), NEW e \in BOOLEAN, Write(memo \o q, e)
  PROVE  FlushInv'
<1> DEFINE text == memo \o q
<1>1. memo \in Seq(Lines) /\ Framed(memo) /\ q \in Seq(Lines)
  <2>1. q \in Seq(Lines)
    BY FreeLines, SeqMonotonic
  <2> QED
    BY <2>1 DEF Typed, MemoTypeOK, FlushInv
<1>2. text \in Seq(Lines) /\ Len(text) = Len(memo) + Len(q)
  BY <1>1, ConcatProperties
<1>3. Framed(text) /\ SameTold(memo, text)
  BY <1>1, WrittenBelow
<1>4. Len(memo) < Len(text)
  <2>1. Len(memo) \in Nat /\ Len(q) \in Nat
    BY <1>1
  <2> QED
    BY <1>2, <2>1
<1>5. Write(text, e)
  OBVIOUS
<1> HIDE DEF text
<1> QED
  BY <1>2, <1>3, <1>4, <1>5, WriteFlush

LEMMA StutterFlush ==
  ASSUME FlushInv, UNCHANGED vars
  PROVE  FlushInv'
<1>1. UNCHANGED <<memo, docs, names, texts, stage, dir, ahead, backend, step>>
  BY DEF vars, memoVars, setupVars
<1>2. Framed(memo)'
  BY <1>1 DEF FlushInv, Framed, Frame, Headed
<1>3. Control' /\ UploadedCovers' /\ LinkedCovers'
  BY <1>1 DEF FlushInv, Control, UploadedCovers, LinkedCovers, Covers
<1>4. DocInv'
  BY <1>1, SectionsStay DEF FlushInv, DocInv
<1>5. ReportedInv'
  BY <1>1 DEF FlushInv, ReportedInv, Reported, Due
<1> QED
  BY <1>2, <1>3, <1>4, <1>5 DEF FlushInv

LEMMA FlushKept ==
  ASSUME NoBeginnings, Typed, FlushInv, [Next]_vars
  PROVE  FlushInv'
<1>1. CASE SetupStep /\ UNCHANGED memoVars
  BY <1>1, SetupFlush
<1>2. CASE \E order \in Orders : \E t \in [ToSet(order) -> Texts] : Execute(order, t)
  BY <1>2, ExecuteFlush
<1>3. CASE \E t \in [ToSet(names) -> Texts] : ExecuteAgain(t)
  BY <1>3, ExecuteAgainFlush
<1>4. CASE \E d \in Dirs : Upload(d)
  BY <1>4, UploadFlush
<1>5. CASE Keep
  BY <1>5, KeepFlush
<1>6. CASE FlushFails
  BY <1>6, FlushFailsFlush
<1>7. CASE Update
  BY <1>7, UpdateFlush
<1>8. ASSUME NEW n \in Notes, WriteAbove(n) \/ WriteBelow(n)
      PROVE  FlushInv'
  <2> DEFINE note == <<Note(n)>>
             noted == <<OtherHeader, Note(n)>>
  <2>1. note \in Seq(Free) /\ noted \in Seq(Free)
    BY DEF Free, TextLines, Note
  <2>2. Len(note) >= 1 /\ Len(noted) >= 1 /\ noted[1] = OtherHeader
    OBVIOUS
  <2>3. \E e \in BOOLEAN :
          \/ Write(note \o memo, e) \/ Write(noted \o memo, e)
          \/ Contains(memo, Header) /\ Write(memo \o noted, e)
    BY <1>8 DEF WriteAbove, WriteBelow, Typed, MemoTypeOK
  <2> HIDE DEF note, noted
  <2>4. CASE \E e \in BOOLEAN : Write(note \o memo, e)
    BY <2>1, <2>2, <2>4, WriteAboveFlush
  <2>5. CASE \E e \in BOOLEAN : Write(noted \o memo, e)
    BY <2>1, <2>2, <2>5, WriteAboveFlush
  <2>6. CASE Contains(memo, Header) /\ \E e \in BOOLEAN : Write(memo \o noted, e)
    BY <2>1, <2>2, <2>6, WriteBelowFlush
  <2> QED
    BY <2>3, <2>4, <2>5, <2>6
<1>9. CASE UNCHANGED vars
  BY <1>9, StutterFlush
<1> QED
  BY <1>1, <1>2, <1>3, <1>4, <1>5, <1>6, <1>7, <1>8, <1>9 DEF Next, Refused

LEMMA FlushInvariance ==
  ASSUME NoBeginnings
  PROVE  Spec => []FlushInv
<1>1. Init => FlushInv
  BY FlushInit
<1>2. Typed /\ FlushInv /\ [Next]_vars => FlushInv'
  BY FlushKept
<1> QED
  BY <1>1, <1>2, TypedInvariance, PTL DEF Spec

-----------------------------------------------------------------------------
(* The theorems.                                                            *)

\* After a flush that has not cut the memo every rule that was executed shows what it
\* rendered, whatever was in the memo before, in whatever order the rules came, how
\* often ever, and wherever people wrote: if no name begins another one.
THEOREM ReportsAreShown ==
  ASSUME NoBeginnings
  PROVE  Spec => []RenderedIsShown
<1>1. FlushInv => RenderedIsShown
  BY DEF FlushInv, ReportedInv, Reported, RenderedIsShown
<1> QED
  BY <1>1, FlushInvariance, PTL

\* The full text behind the memo's link tells all that the memo tells, and tells whole
\* what the memo cuts, also of rules that were reported by executions before this one.
THEOREM LinkLeadsToIt ==
  ASSUME NoBeginnings
  PROVE  Spec => []LinkCovers
<1>1. FlushInv => LinkCovers
  BY LinkCoversIs DEF FlushInv
<1> QED
  BY <1>1, FlushInvariance, PTL

\* A message that comes again, or a query more, leaves the memo as it is if nothing new
\* was rendered: however the sections stand in the memo, and whatever is around them.
THEOREM FlushAgainChangesNothing ==
  ASSUME NoBeginnings
  PROVE  Spec => []FlushIsIdempotent
<1>1. Typed /\ FlushInv => FlushIsIdempotent
  BY FlushedAgain
<1> QED
  BY <1>1, TypedInvariance, FlushInvariance, PTL

-----------------------------------------------------------------------------
(* The board that the memo is: what is around the section.                    *)

AboveOf(m) ==
  LET first == SelectInSeq(m, LAMBDA line : line = Header)
  IN IF first = 0 THEN m ELSE SubSeq(m, 1, first - 1)

BelowOf(m) ==
  LET first == SelectInSeq(m, LAMBDA line : line = Header)
      next == SelectInSubSeq(m, first + 1, Len(m), LAMBDA line : line.kind = "##")
  IN IF first = 0 \/ next = 0 THEN <<>> ELSE SubSeq(m, next, Len(m))

LEMMA Around == Above = AboveOf(memo) /\ Below = BelowOf(memo)
BY DEF Above, Below, AboveOf, BelowOf

\* Without a section everything is above it.
LEMMA FreeAround ==
  ASSUME NEW m \in Seq(Free)
  PROVE  AboveOf(m) = m /\ BelowOf(m) = <<>>
<1> DEFINE I == {i \in 1 .. Len(m) : m[i] = Header}
<1>1. I = {}
  BY FreeLines
<1>2. SelectInSeq(m, LAMBDA line : line = Header) = IF I # {} THEN Min(I) ELSE 0
  BY DEF SelectInSeq
<1>3. SelectInSeq(m, LAMBDA line : line = Header) = 0
  BY <1>1, <1>2
<1> QED
  BY <1>3 DEF AboveOf, BelowOf

\* Of m, the h - 1 lines before the section and those that follow its l lines.
Surrounded(m, h, l) ==
  /\ AboveOf(m) \in Seq(Lines) /\ Len(AboveOf(m)) = h - 1
  /\ \A i \in 1 .. h - 1 : AboveOf(m)[i] = m[i]
  /\ BelowOf(m) \in Seq(Lines) /\ Len(BelowOf(m)) = (Len(m) - (h - 1)) - l
  /\ \A i \in 1 .. (Len(m) - (h - 1)) - l : BelowOf(m)[i] = m[((h - 1) + l) + i]

LEMMA FrameAround ==
  ASSUME NoBeginnings, NEW m, NEW h, NEW s, Headed(s), Frame(m, h, s)
  PROVE  Surrounded(m, h, Len(s))
<1> DEFINE I == {i \in 1 .. Len(m) : m[i] = Header}
           f == IF I # {} THEN Min(I) ELSE 0
           J(k) == {i \in k + 1 .. Len(m) : m[i].kind = "##"}
           g(k) == IF J(k) # {} THEN Min(J(k)) ELSE 0
           last == (h - 1) + Len(s)
           L == Len(m)
           a == AboveOf(m)
           b == BelowOf(m)
<1>1. /\ m \in Seq(Lines) /\ h \in Nat /\ 1 <= h /\ Len(s) \in Nat /\ Len(s) >= 1 /\ last <= L
      /\ L \in Nat /\ last \in Nat /\ h <= last
  <2>1. m \in Seq(Lines) /\ s \in Seq(Lines) /\ h \in 1 .. L + 1 /\ Len(s) >= 1 /\ last <= L
    BY DEF Frame, Headed
  <2>2. Len(s) \in Nat /\ L \in Nat
    BY <2>1
  <2> QED
    BY <2>1, <2>2
<1>2. /\ m[h] = Header /\ \A i \in 1 .. L : m[i] = Header => i = h
      /\ Reaches(m, {"##"}, h, last)
  BY FrameFinds
<1>3. f = h
  <2>1. I \subseteq Nat /\ h \in I /\ \A i \in I : h <= i
    BY <1>1, <1>2
  <2> HIDE DEF I
  <2> QED
    BY <2>1, MinIs
<1>4. a = IF f = 0 THEN m ELSE SubSeq(m, 1, f - 1)
  BY DEF AboveOf, SelectInSeq
<1>5. b = IF f = 0 \/ g(f) = 0 THEN <<>> ELSE SubSeq(m, g(f), L)
  BY DEF BelowOf, SelectInSeq, SelectInSubSeq
<1> HIDE DEF f, a, b
<1>6. a = SubSeq(m, 1, h - 1) /\ h - 1 \in 0 .. L
  BY <1>1, <1>3, <1>4
<1>7. a \in Seq(Lines)
  BY <1>1, <1>6, FirstPart
<1>8. Len(a) = h - 1
  BY <1>1, <1>6, FirstPart
<1>9. \A i \in 1 .. h - 1 : a[i] = m[i]
  BY <1>1, <1>6, FirstPart
<1>10. b \in Seq(Lines) /\ Len(b) = L - last /\ \A i \in 1 .. L - last : b[i] = m[last + i]
  <2>1. CASE last = L
    <3>1. J(h) = {}
      BY <1>1, <1>2, <2>1 DEF Reaches
    <3>2. b = <<>>
      BY <1>3, <1>5, <3>1
    <3> HIDE DEF last, L
    <3>3. L - last = 0 /\ 1 .. L - last = {}
      BY <1>1, <2>1
    <3> QED
      BY <3>2, <3>3
  <2>2. CASE last # L
    <3>1. J(h) \subseteq Nat /\ last + 1 \in J(h) /\ \A i \in J(h) : last + 1 <= i
      <4> HIDE DEF last, L
      <4>1. m[last + 1].kind = "##" /\ \A i \in h + 1 .. last : m[i].kind # "##"
        BY <1>2, <2>2 DEF Reaches, L
      <4> QED
        BY <1>1, <2>2, <4>1 DEF L
    <3>2. g(h) = last + 1
      <4> HIDE DEF J
      <4> QED
        BY <3>1, MinIs
    <3> HIDE DEF g, last
    <3>3. b = SubSeq(m, last + 1, L) /\ last + 1 \in 1 .. L + 1
      BY <1>1, <1>3, <1>5, <2>2, <3>2
    <3>4. b \in Seq(Lines)
      BY <1>1, <3>3, LastPart
    <3>5. Len(b) = (L - (last + 1)) + 1
      BY <1>1, <3>3, LastPart
    <3>6. \A i \in 1 .. (L - (last + 1)) + 1 : b[i] = m[((last + 1) + i) - 1]
      BY <1>1, <3>3, LastPart
    <3> HIDE DEF L
    <3>7. (L - (last + 1)) + 1 = L - last
      BY <1>1
    <3>8. ASSUME NEW i \in 1 .. L - last
          PROVE  b[i] = m[last + i]
      <4>1. ((last + 1) + i) - 1 = last + i
        BY <1>1
      <4> QED
        BY <3>6, <3>7, <4>1
    <3> QED
      BY <3>4, <3>5, <3>7, <3>8
  <2> QED
    BY <2>1, <2>2
<1>11. L - last = (L - (h - 1)) - Len(s)
  BY <1>1
<1> QED
  BY <1>7, <1>8, <1>9, <1>10, <1>11 DEF Surrounded, a, b, L, last

\* Beginnings and ends.
LEMMA PrefixIs ==
  ASSUME NEW S, NEW p \in Seq(S), NEW t \in Seq(S), Len(p) <= Len(t),
         \A i \in 1 .. Len(p) : t[i] = p[i]
  PROVE  IsPrefix(p, t)
<1> DEFINE n == Len(p)
           q == SubSeq(t, 1, n)
<1>1. n \in 0 .. Len(t)
  OBVIOUS
<1>2. SubSeq(p, 1, n) = p
  BY SubSeqFull
<1>3. \A i \in 1 .. n : t[i] = p[i]
  OBVIOUS
<1>4. n = Len(p)
  OBVIOUS
<1> HIDE DEF n
<1>5. q \in Seq(S)
  BY <1>1, FirstPart
<1>6. Len(q) = n
  BY <1>1, FirstPart
<1>7. \A i \in 1 .. n : q[i] = t[i]
  BY <1>1, FirstPart
<1> HIDE DEF q
<1>8. q = p
  <2>1. \A i \in 1 .. Len(q) : q[i] = p[i]
    BY <1>3, <1>6, <1>7
  <2> QED
    BY <1>4, <1>5, <1>6, <2>1, SeqEqual
<1> QED
  BY <1>2, <1>8 DEF IsPrefix, n, q

LEMMA SuffixIs ==
  ASSUME NEW S, NEW p \in Seq(S), NEW t \in Seq(S), Len(p) <= Len(t),
         \A i \in 1 .. Len(p) : t[(Len(t) - Len(p)) + i] = p[i]
  PROVE  IsSuffix(p, t)
<1> DEFINE n == Len(p)
           L == Len(t)
           a == Reverse(p)
           b == Reverse(t)
<1>1. n \in Nat /\ L \in Nat /\ n <= L
  OBVIOUS
<1>2. \A i \in 1 .. n : t[(L - n) + i] = p[i]
  OBVIOUS
<1>3. /\ a \in Seq(S) /\ Len(a) = n /\ \A i \in 1 .. n : a[i] = p[(n - i) + 1]
      /\ b \in Seq(S) /\ Len(b) = L /\ \A i \in 1 .. L : b[i] = t[(L - i) + 1]
  BY DEF Reverse
<1> HIDE DEF n, L, a, b
<1>4. ASSUME NEW i \in 1 .. n
      PROVE  b[i] = a[i]
  <2> DEFINE k == (n - i) + 1
  <2>1. i \in 1 .. L /\ k \in 1 .. n /\ (L - n) + k = (L - i) + 1
    BY <1>1
  <2>2. b[i] = t[(L - i) + 1] /\ a[i] = p[k]
    BY <1>3, <2>1
  <2>3. t[(L - n) + k] = p[k]
    <3> HIDE DEF k
    <3> QED
      BY <1>2, <2>1
  <2> QED
    BY <2>1, <2>2, <2>3
<1>5. IsPrefix(a, b)
  BY <1>1, <1>3, <1>4, PrefixIs
<1> QED
  BY <1>5 DEF IsSuffix, a, b

\* A flush that is not cut leaves alone what is around the section.
LEMMA WholeAround ==
  ASSUME NoBeginnings, NamesHaveTexts, NEW m, Framed(m), NEW d \in Dirs \cup {NoDir},
         NEW r, r = WholeMemo(m, d)
  PROVE  AboveOf(r) = AboveOf(m) /\ BelowOf(r) = BelowOf(m)
<1> DEFINE old == extructSection(m, Header)
           new == NewSection(old, d)
<1>1. /\ m \in Seq(Lines) /\ old \in Seq(Lines)
      /\ \/ m \in Seq(Free) /\ old = <<>>
         \/ Headed(old) /\ old # <<>>
  BY OldSection
<1>2. /\ r \in Seq(Lines) /\ Headed(new)
      /\ \E h \in 1 .. Len(r) :
           /\ Frame(m, h, old) /\ Replaced(r, h, new, old, m) /\ Frame(r, h, new)
           /\ old = <<>> => h = Len(m) + 1
  BY WholeMemoIs
<1> HIDE DEF old, new
<1>3. PICK h \in 1 .. Len(r) :
        /\ Frame(m, h, old) /\ Replaced(r, h, new, old, m) /\ Frame(r, h, new)
        /\ old = <<>> => h = Len(m) + 1
  BY <1>2
<1> DEFINE lm == Len(m)
           lr == Len(r)
           lo == Len(old)
           ln == Len(new)
           a == AboveOf(r)
           b == BelowOf(r)
<1>4. lm \in Nat /\ lr \in Nat /\ lo \in Nat /\ ln \in Nat /\ h \in Nat \ {0} /\ h <= lr
  BY <1>1, <1>2 DEF Headed
<1>5. Surrounded(r, h, Len(new))
  BY <1>2, <1>3, FrameAround
<1>6. /\ a \in Seq(Lines) /\ Len(a) = h - 1 /\ \A i \in 1 .. h - 1 : a[i] = r[i]
      /\ b \in Seq(Lines) /\ Len(b) = (lr - (h - 1)) - ln
      /\ \A i \in 1 .. (lr - (h - 1)) - ln : b[i] = r[((h - 1) + ln) + i]
  BY <1>5 DEF Surrounded
<1>7. /\ lr = (lm - lo) + ln
      /\ \A i \in 1 .. h - 1 : r[i] = m[i]
      /\ \A i \in h + lo .. lm : r[(i - lo) + ln] = m[i]
  BY <1>3 DEF Replaced
<1>8. CASE m \in Seq(Free) /\ old = <<>>
  <2>1. AboveOf(m) = m /\ BelowOf(m) = <<>>
    BY <1>8, FreeAround
  <2>2. lo = 0 /\ h = lm + 1
    BY <1>3, <1>8
  <2>3. a = m
    <3> HIDE DEF a, b, lr, lo, ln
    <3>1. Len(a) = Len(m) /\ \A i \in 1 .. Len(a) : a[i] = m[i]
      BY <1>4, <1>6, <1>7, <2>2
    <3> QED
      BY <1>1, <1>6, <3>1, SeqEqual
  <2>4. b = <<>>
    <3> HIDE DEF a, b, lr, lo, ln, lm
    <3>1. Len(b) = 0
      BY <1>4, <1>6, <1>7, <2>2
    <3> QED
      BY <1>6, <3>1
  <2> QED
    BY <2>1, <2>3, <2>4
<1>9. CASE Headed(old) /\ old # <<>>
  <2> DEFINE x == AboveOf(m)
             y == BelowOf(m)
  <2>1. Surrounded(m, h, Len(old))
    BY <1>3, <1>9, FrameAround
  <2>2. /\ x \in Seq(Lines) /\ Len(x) = h - 1 /\ \A i \in 1 .. h - 1 : x[i] = m[i]
        /\ y \in Seq(Lines) /\ Len(y) = (lm - (h - 1)) - lo
        /\ \A i \in 1 .. (lm - (h - 1)) - lo : y[i] = m[((h - 1) + lo) + i]
    BY <2>1 DEF Surrounded
  <2> HIDE DEF a, b, x, y, lr, lo, ln, lm
  <2>3. a = x
    <3>1. Len(a) = Len(x) /\ \A i \in 1 .. Len(a) : a[i] = x[i]
      BY <1>6, <1>7, <2>2
    <3> QED
      BY <1>6, <2>2, <3>1, SeqEqual
  <2>4. b = y
    <3> DEFINE k == (lm - (h - 1)) - lo
    <3>1. Len(b) = k /\ Len(y) = k /\ (lr - (h - 1)) - ln = k
      BY <1>4, <1>6, <1>7, <2>2
    <3>2. ASSUME NEW i \in 1 .. k
          PROVE  b[i] = y[i]
      <4> DEFINE j == ((h - 1) + lo) + i
      <4>1. j \in h + lo .. lm /\ (j - lo) + ln = ((h - 1) + ln) + i
        BY <1>4
      <4> HIDE DEF j
      <4>2. r[((h - 1) + ln) + i] = m[j]
        BY <1>7, <4>1
      <4>3. b[i] = r[((h - 1) + ln) + i]
        BY <1>6, <3>1
      <4>4. y[i] = m[j]
        BY <2>2 DEF j
      <4> QED
        BY <4>2, <4>3, <4>4
    <3> HIDE DEF k
    <3> QED
      BY <1>6, <2>2, <3>1, <3>2, SeqEqual
  <2> QED
    BY <2>3, <2>4 DEF a, b, x, y
<1> QED
  BY <1>1, <1>8, <1>9

-----------------------------------------------------------------------------
(* What a cut leaves of the sections.                                        *)

\* A cut of the section is a cut of what is inside.
LEMMA InnerCut ==
  ASSUME NEW s, Headed(s), NEW t, Headed(t), NEW j, j >= 1, CutOff(t, j, s)
  PROVE  \E k : CutOff(Inner(t), k, Inner(s))
<1> DEFINE e == Line("text", Ellipsis)
           l == Linked(s)
           k == IF j >= 1 + l THEN (j - 1) - l ELSE 0
           c == Inner(s)
           x == Inner(t)
           ls == Len(s)
<1>1. /\ ls \in Nat /\ j \in Nat /\ j <= ls /\ j >= 1 /\ Len(t) = j + 1
      /\ \A i \in 1 .. j : t[i] = s[i]
      /\ t[j + 1] = e
  BY DEF CutOff, Headed
<1>2. e.kind # "url"
  BY DEF Line
<1>3. l \in {0, 1}
  BY DEF Linked
<1>4. Linked(t) = IF j >= 1 + l THEN l ELSE 0
  <2>1. CASE j = 1
    BY <1>1, <1>2, <1>3, <2>1 DEF Linked
  <2>2. CASE j >= 2
    <3>1. t[2] = s[2] /\ Len(t) > 1 /\ Len(s) > 1 /\ j >= 1 + l
      BY <1>1, <1>3, <2>2
    <3> QED
      BY <3>1 DEF Linked
  <2> QED
    BY <1>1, <2>1, <2>2
<1>5. Wellformed(x) /\ Len(x) = (Len(t) - 1) - Linked(t)
      /\ \A i \in 1 .. Len(x) : x[i] = t[(1 + Linked(t)) + i]
  BY InnerLines
<1>6. Wellformed(c) /\ Len(c) = (ls - 1) - l /\ \A i \in 1 .. Len(c) : c[i] = s[(1 + l) + i]
  BY InnerLines
<1>7. x \in Seq(Lines)
  <2>1. x \in Seq(SectionLines) /\ SectionLines \subseteq Lines
    BY <1>5, Kinds DEF Wellformed
  <2> HIDE DEF x
  <2> QED
    BY <2>1, SeqMonotonic
<1> HIDE DEF x, c, e, ls, l
<1>8. k \in Nat /\ Len(x) = k + 1 /\ k \in 0 .. Len(c)
  <2>1. CASE j >= 1 + l
    BY <1>1, <1>3, <1>4, <1>5, <1>6, <2>1
  <2>2. CASE ~ (j >= 1 + l)
    <3>1. j = 1 /\ l = 1 /\ k = 0 /\ Linked(t) = 0
      BY <1>1, <1>3, <1>4, <2>2
    <3>2. Len(s) > 1
      BY <3>1 DEF l, Linked
    <3> QED
      BY <1>1, <1>5, <1>6, <3>1, <3>2 DEF ls
  <2> QED
    BY <2>1, <2>2
<1>9. ASSUME NEW i \in 1 .. k
      PROVE  x[i] = c[i]
  <2>1. j >= 1 + l /\ k = (j - 1) - l /\ Linked(t) = l
    BY <1>4
  <2>2. i \in 1 .. Len(x) /\ i \in 1 .. Len(c) /\ (1 + l) + i \in 1 .. j
    BY <1>1, <1>3, <1>8, <2>1
  <2> HIDE DEF k
  <2>3. x[i] = t[(1 + l) + i] /\ c[i] = s[(1 + l) + i]
    BY <1>5, <1>6, <2>1, <2>2
  <2> QED
    BY <1>1, <2>2, <2>3
<1>10. x[k + 1] = e
  <2>1. (1 + Linked(t)) + (k + 1) = j + 1
    BY <1>1, <1>3, <1>4
  <2>2. k + 1 \in 1 .. Len(x)
    BY <1>8
  <2> HIDE DEF k
  <2> QED
    BY <1>1, <1>5, <2>1, <2>2
<1>11. CutOff(x, k, c)
  <2> HIDE DEF k
  <2> QED
    BY <1>7, <1>8, <1>9, <1>10 DEF CutOff, e
<1> QED
  BY <1>11 DEF x, c

\* The section of n is the one in which c is cut behind k.
Partial(n, k, c) == \E p \in 1 .. k : c[p] = Section(n) /\ k <= p + Len(Told(c, n))

Shortens(new, old) == new = old \/ new = <<>> \/ IsPrefix(Front(new), old)

\* It is one at most.
LEMMA OneIsPartial ==
  ASSUME NEW c, Wellformed(c), NEW k \in 0 .. Len(c), NEW n, NEW q,
         Partial(n, k, c), Partial(q, k, c)
  PROVE  n = q
<1>1. Len(c) \in Nat
  BY DEF Wellformed
<1>2. ASSUME NEW u, NEW v, NEW i \in 1 .. k, NEW j \in 1 .. k,
             c[i] = Section(u), k <= i + Len(Told(c, u)), c[j] = Section(v)
      PROVE  ~ (i < j)
  <2> DEFINE b == Told(c, u)
  <2>1. i \in 1 .. Len(c) /\ j \in 1 .. Len(c)
    BY <1>1
  <2>2. b \in Seq(TextLines) /\ Tells(c, u, i, b)
    BY <1>2, <2>1, TellsSomething
  <2>3. k <= i + Len(b)
    BY <1>2
  <2> HIDE DEF b
  <2>4. SUFFICES ASSUME i < j PROVE FALSE
    OBVIOUS
  <2>5. Len(b) \in Nat
    BY <2>2
  <2>6. j - i \in 1 .. Len(b) /\ i + (j - i) = j
    BY <1>1, <2>3, <2>4, <2>5
  <2>7. c[j] = b[j - i]
    BY <2>2, <2>6 DEF Tells
  <2>8. b[j - i] \in TextLines
    BY <2>2, <2>6
  <2> QED
    BY <1>2, <2>7, <2>8, Kinds
<1>3. PICK i \in 1 .. k : c[i] = Section(n) /\ k <= i + Len(Told(c, n))
  BY DEF Partial
<1>4. PICK j \in 1 .. k : c[j] = Section(q) /\ k <= j + Len(Told(c, q))
  BY DEF Partial
<1>5. ~ (i < j)
  BY <1>2, <1>3, <1>4
<1>6. ~ (j < i)
  BY <1>2, <1>3, <1>4
<1>7. i = j
  BY <1>1, <1>5, <1>6
<1> QED
  BY <1>3, <1>4, <1>7, Kinds

\* The others are there, or are not.
LEMMA NotPartial ==
  ASSUME NEW c, Wellformed(c), NEW x, Wellformed(x), NEW k, CutOff(x, k, c),
         NEW n, ~ Partial(n, k, c)
  PROVE  Told(x, n) \in {<<>>, Told(c, n)}
<1>1. /\ Len(c) \in Nat /\ k \in 0 .. Len(c) /\ Len(x) = k + 1
      /\ \A i \in 1 .. k : x[i] = c[i]
      /\ x[k + 1].kind = "text"
  BY DEF CutOff, Wellformed, Line
<1>2. CASE \A i \in 1 .. Len(x) : x[i] # Section(n)
  BY <1>2, ToldNothing
<1>3. CASE \E i \in 1 .. Len(x) : x[i] = Section(n)
  <2>1. PICK p \in 1 .. Len(x) : x[p] = Section(n)
    BY <1>3
  <2> DEFINE b == Told(c, n)
  <2>2. p # k + 1
    BY <1>1, <2>1, Kinds
  <2>3. p \in 1 .. k /\ p \in 1 .. Len(c) /\ c[p] = Section(n)
    <3>1. p \in 1 .. k /\ p \in 1 .. Len(c)
      BY <1>1, <2>2
    <3> QED
      BY <1>1, <2>1, <3>1
  <2>4. b \in Seq(TextLines) /\ Tells(c, n, p, b)
    BY <2>3, TellsSomething
  <2>5. ~ (k <= p + Len(b))
    BY <2>3 DEF Partial
  <2> HIDE DEF b
  <2>6. Len(b) \in Nat
    BY <2>4
  <2>7. /\ p + Len(b) <= Len(x) /\ p + Len(b) + 1 \in 1 .. k /\ p + Len(b) # Len(c)
        /\ \A i \in 1 .. Len(b) : p + i \in 1 .. k
    BY <1>1, <2>3, <2>5, <2>6
  <2>8. \A i \in 1 .. Len(b) : x[p + i] = b[i]
    BY <1>1, <2>4, <2>7 DEF Tells
  <2>9. x[p + Len(b) + 1].kind \in {"##", "###"}
    BY <1>1, <2>4, <2>7 DEF Tells
  <2>10. Tells(x, n, p, b)
    BY <2>1, <2>7, <2>8, <2>9 DEF Tells
  <2>11. Told(x, n) = b
    BY <2>4, <2>10, ToldOnce
  <2> QED
    BY <2>11 DEF b
<1> QED
  BY <1>2, <1>3

\* Of the one the beginning is there.
LEMMA PartialIsShort ==
  ASSUME NEW c, Wellformed(c), NEW x, Wellformed(x), NEW k, CutOff(x, k, c),
         NEW n, Partial(n, k, c)
  PROVE  Shortens(Told(x, n), Told(c, n))
<1> DEFINE b == Told(c, n)
           a == Told(x, n)
<1>1. /\ Len(c) \in Nat /\ k \in 0 .. Len(c) /\ Len(x) = k + 1
      /\ \A i \in 1 .. k : x[i] = c[i]
      /\ x[k + 1].kind = "text"
  BY DEF CutOff, Wellformed, Line
<1>2. PICK p \in 1 .. k : c[p] = Section(n) /\ k <= p + Len(b)
  BY DEF Partial
<1>3. p \in 1 .. Len(c) /\ p \in 1 .. Len(x) /\ x[p] = Section(n)
  <2>1. p \in 1 .. Len(c) /\ p \in 1 .. Len(x)
    BY <1>1
  <2> QED
    BY <1>1, <1>2, <2>1
<1>4. b \in Seq(TextLines) /\ Tells(c, n, p, b)
  BY <1>2, <1>3, TellsSomething
<1>5. a \in Seq(TextLines) /\ Tells(x, n, p, a)
  BY <1>3, TellsSomething
<1> HIDE DEF a, b
<1>6. Len(a) \in Nat /\ Len(b) \in Nat
  BY <1>4, <1>5
<1>7. p + Len(a) = k + 1
  <2>1. SUFFICES ASSUME p + Len(a) # k + 1 PROVE FALSE
    OBVIOUS
  <2> DEFINE j == Len(a) + 1
  <2>2. p + Len(a) <= Len(x) /\ (p + Len(a) = Len(x) \/ x[p + Len(a) + 1].kind \in {"##", "###"})
    BY <1>5 DEF Tells
  <2>3. p + Len(a) + 1 = p + j /\ p + j \in 1 .. k + 1 /\ p + Len(a) # Len(x)
    BY <1>1, <1>3, <1>6, <2>1, <2>2
  <2>4. x[p + j].kind \in {"##", "###"}
    BY <2>2, <2>3
  <2>5. p + j # k + 1
    BY <1>1, <2>4
  <2>6. p + j \in 1 .. k /\ j \in 1 .. Len(b)
    BY <1>1, <1>2, <1>6, <2>3, <2>5
  <2> HIDE DEF j
  <2>7. c[p + j] = b[j] /\ b[j] \in TextLines
    BY <1>4, <2>6 DEF Tells
  <2> QED
    BY <1>1, <2>4, <2>6, <2>7, Kinds
<1> DEFINE f == Front(a)
           l == Len(a) - 1
<1>8. l \in 0 .. Len(a) /\ l <= Len(b) /\ l = k - p
  BY <1>1, <1>2, <1>6, <1>7
<1>9. f = SubSeq(a, 1, l)
  BY DEF Front
<1> HIDE DEF l, f
<1>10. f \in Seq(TextLines)
  BY <1>5, <1>8, <1>9, FirstPart
<1>11. Len(f) = l
  BY <1>5, <1>8, <1>9, FirstPart
<1>12. \A i \in 1 .. l : f[i] = a[i]
  BY <1>5, <1>8, <1>9, FirstPart
<1>13. ASSUME NEW i \in 1 .. Len(f)
       PROVE  b[i] = f[i]
  <2>1. i \in 1 .. l /\ i \in 1 .. Len(a) /\ i \in 1 .. Len(b) /\ p + i \in 1 .. k
    BY <1>1, <1>6, <1>8, <1>11
  <2>2. x[p + i] = a[i] /\ c[p + i] = b[i]
    BY <1>4, <1>5, <2>1 DEF Tells
  <2> QED
    BY <1>1, <1>12, <2>1, <2>2
<1>14. IsPrefix(f, b)
  BY <1>4, <1>8, <1>10, <1>11, <1>13, PrefixIs
<1> QED
  BY <1>14 DEF Shortens, f, a, b

-----------------------------------------------------------------------------
(* The steps of the board.                                                   *)

\* What of the memo m is left in r, of which k lines are those of m.
Left(r, k, m) ==
  /\ \A i \in 1 .. Len(AboveOf(m)) :
       i <= k => i \in 1 .. Len(AboveOf(r)) /\ AboveOf(r)[i] = AboveOf(m)[i]
  /\ \A n \in Names : Shortens(Told(r, n), Told(m, n))
  /\ \A n, q \in Names :
       n # q /\ Told(r, n) \notin {<<>>, Told(m, n)} => Told(r, q) \in {<<>>, Told(m, q)}
  /\ BelowOf(r) # <<>> => \A n \in Names : Told(r, n) = Told(m, n)
  /\ Shortens(BelowOf(r), BelowOf(m))

LEMMA LeftAbove ==
  ASSUME NoBeginnings, NEW m, NEW h, NEW s, Headed(s), Frame(m, h, s),
         NEW k, NEW r, CutOff(r, k, m), k < h
  PROVE  Left(r, k, m)
<1>1. /\ k \in Nat /\ h \in Nat /\ Len(r) = k + 1
      /\ \A i \in 1 .. k : r[i] = m[i]
      /\ \A i \in 1 .. h - 1 : m[i] \in Free
  BY DEF CutOff, Frame
<1>2. \A i \in 1 .. k : m[i] \in Free
  BY <1>1
<1>3. r \in Seq(Free)
  BY <1>2, CutAbove
<1>4. AboveOf(r) = r /\ BelowOf(r) = <<>> /\ \A n \in Names : Told(r, n) = <<>>
  BY <1>3, FreeAround, FreeText
<1>5. Surrounded(m, h, Len(s))
  BY FrameAround
<1>6. Len(AboveOf(m)) = h - 1 /\ \A i \in 1 .. h - 1 : AboveOf(m)[i] = m[i]
  BY <1>5 DEF Surrounded
<1>7. ASSUME NEW i \in 1 .. Len(AboveOf(m)), i <= k
      PROVE  i \in 1 .. Len(AboveOf(r)) /\ AboveOf(r)[i] = AboveOf(m)[i]
  <2>1. i \in 1 .. h - 1 /\ i \in 1 .. k /\ i \in 1 .. Len(r)
    BY <1>1, <1>6, <1>7
  <2> QED
    BY <1>1, <1>4, <1>6, <2>1
<1> QED
  BY <1>4, <1>7 DEF Left, Shortens

LEMMA LeftWithin ==
  ASSUME NoBeginnings, NEW m, NEW h, NEW s, Headed(s), Frame(m, h, s),
         NEW k, NEW r, CutOff(r, k, m), h <= k, k < h + Len(s)
  PROVE  Left(r, k, m)
<1>1. PICK t : CutOff(t, (k - h) + 1, s) /\ Headed(t) /\ Frame(r, h, t) /\ h \in 1 .. Len(r)
                 /\ h + Len(t) > Len(r)
  BY CutWithin
<1>2. /\ k \in Nat /\ h \in Nat \ {0} /\ Len(r) = k + 1 /\ Len(t) \in Nat
      /\ \A i \in 1 .. k : r[i] = m[i]
      /\ (h - 1) + Len(t) <= Len(r)
  BY <1>1 DEF CutOff, Frame
<1>3. Surrounded(m, h, Len(s))
  BY FrameAround
<1>4. Len(AboveOf(m)) = h - 1 /\ \A i \in 1 .. h - 1 : AboveOf(m)[i] = m[i]
  BY <1>3 DEF Surrounded
<1>5. Surrounded(r, h, Len(t))
  BY <1>1, FrameAround
<1>6. /\ Len(AboveOf(r)) = h - 1 /\ \A i \in 1 .. h - 1 : AboveOf(r)[i] = r[i]
      /\ BelowOf(r) \in Seq(Lines) /\ Len(BelowOf(r)) = (Len(r) - (h - 1)) - Len(t)
  BY <1>5 DEF Surrounded
<1>7. BelowOf(r) = <<>>
  <2>1. Len(BelowOf(r)) = 0
    BY <1>1, <1>2, <1>6
  <2> QED
    BY <1>6, <2>1
<1>8. ASSUME NEW i \in 1 .. Len(AboveOf(m)), i <= k
      PROVE  i \in 1 .. Len(AboveOf(r)) /\ AboveOf(r)[i] = AboveOf(m)[i]
  <2>1. i \in 1 .. h - 1 /\ i \in 1 .. k
    BY <1>2, <1>4, <1>8
  <2> QED
    BY <1>2, <1>4, <1>6, <2>1
<1> DEFINE c == Inner(s)
           x == Inner(t)
<1>9. Wellformed(c) /\ Wellformed(x)
  BY <1>1, InnerLines
<1>10. PICK at : CutOff(x, at, c)
  <2>1. (k - h) + 1 >= 1
    BY <1>2
  <2> QED
    BY <1>1, <2>1, InnerCut
<1>11. \A n \in Names : Told(r, n) = Told(x, n) /\ Told(m, n) = Told(c, n)
  BY <1>1, FrameTells
<1>12. at \in 0 .. Len(c)
  BY <1>10 DEF CutOff
<1> HIDE DEF c, x
<1>13. \A n \in Names : ~ Partial(n, at, c) => Told(x, n) \in {<<>>, Told(c, n)}
  BY <1>9, <1>10, NotPartial
<1>14. \A n \in Names : Shortens(Told(x, n), Told(c, n))
  BY <1>9, <1>10, <1>13, PartialIsShort DEF Shortens
<1>15. ASSUME NEW n \in Names, NEW q \in Names, n # q, Told(x, n) \notin {<<>>, Told(c, n)}
       PROVE  Told(x, q) \in {<<>>, Told(c, q)}
  <2>1. Partial(n, at, c)
    BY <1>13, <1>15
  <2>2. ~ Partial(q, at, c)
    BY <1>9, <1>12, <1>15, <2>1, OneIsPartial
  <2> QED
    BY <1>13, <2>2
<1>16. \A n \in Names : Shortens(Told(r, n), Told(m, n))
  BY <1>11, <1>14
<1>17. \A n, q \in Names :
         n # q /\ Told(r, n) \notin {<<>>, Told(m, n)} => Told(r, q) \in {<<>>, Told(m, q)}
  BY <1>11, <1>15
<1>18. Shortens(BelowOf(r), BelowOf(m))
  BY <1>7 DEF Shortens
<1> QED
  BY <1>7, <1>8, <1>16, <1>17, <1>18 DEF Left

LEMMA LeftBelow ==
  ASSUME NoBeginnings, NEW m, NEW h, NEW s, Headed(s), Frame(m, h, s),
         NEW k, NEW r, CutOff(r, k, m), k >= h + Len(s)
  PROVE  Left(r, k, m)
<1> DEFINE ls == Len(s)
           last == (h - 1) + ls
           a == BelowOf(r)
           b == BelowOf(m)
<1>1. Frame(r, h, s) /\ h \in 1 .. Len(r)
  BY CutBelow
<1>2. /\ k \in Nat /\ h \in Nat \ {0} /\ Len(r) = k + 1 /\ ls \in Nat /\ Len(m) \in Nat
      /\ \A i \in 1 .. k : r[i] = m[i]
      /\ k <= Len(m) /\ k >= h + ls
  BY DEF CutOff, Frame
<1>3. Surrounded(m, h, Len(s))
  BY FrameAround
<1>4. /\ Len(AboveOf(m)) = h - 1 /\ \A i \in 1 .. h - 1 : AboveOf(m)[i] = m[i]
      /\ b \in Seq(Lines) /\ Len(b) = (Len(m) - (h - 1)) - ls
      /\ \A i \in 1 .. (Len(m) - (h - 1)) - ls : b[i] = m[last + i]
  BY <1>3 DEF Surrounded
<1>5. Surrounded(r, h, Len(s))
  BY <1>1, FrameAround
<1>6. /\ Len(AboveOf(r)) = h - 1 /\ \A i \in 1 .. h - 1 : AboveOf(r)[i] = r[i]
      /\ a \in Seq(Lines) /\ Len(a) = (Len(r) - (h - 1)) - ls
      /\ \A i \in 1 .. (Len(r) - (h - 1)) - ls : a[i] = r[last + i]
  BY <1>5 DEF Surrounded
<1>7. SameTold(m, r)
  BY <1>1, SameSection
<1>8. \A n \in Names : Told(r, n) = Told(m, n)
  BY <1>7 DEF SameTold
<1> HIDE DEF ls, last, a, b
<1>9. ASSUME NEW i \in 1 .. Len(AboveOf(m)), i <= k
      PROVE  i \in 1 .. Len(AboveOf(r)) /\ AboveOf(r)[i] = AboveOf(m)[i]
  <2>1. i \in 1 .. h - 1 /\ i \in 1 .. k
    BY <1>2, <1>4, <1>9
  <2> QED
    BY <1>2, <1>4, <1>6, <2>1
<1> DEFINE f == Front(a)
           l == Len(a) - 1
<1>10. l = k - last /\ last \in Nat /\ Len(b) = Len(m) - last /\ l \in 0 .. Len(a) /\ l <= Len(b)
  BY <1>2, <1>4, <1>6 DEF last
<1>11. f = SubSeq(a, 1, l)
  BY DEF Front
<1> HIDE DEF f, l
<1>12. f \in Seq(Lines)
  BY <1>6, <1>10, <1>11, FirstPart
<1>13. Len(f) = l
  BY <1>6, <1>10, <1>11, FirstPart
<1>14. \A i \in 1 .. l : f[i] = a[i]
  BY <1>6, <1>10, <1>11, FirstPart
<1>15. ASSUME NEW i \in 1 .. Len(f)
       PROVE  b[i] = f[i]
  <2>1. /\ i \in 1 .. l /\ last + i \in 1 .. k
        /\ i \in 1 .. (Len(r) - (h - 1)) - ls /\ i \in 1 .. (Len(m) - (h - 1)) - ls
    BY <1>2, <1>4, <1>6, <1>10, <1>13
  <2>2. f[i] = a[i] /\ a[i] = r[last + i] /\ b[i] = m[last + i] /\ r[last + i] = m[last + i]
    BY <1>2, <1>4, <1>6, <1>14, <2>1
  <2> QED
    BY <2>2
<1>16. IsPrefix(f, b)
  BY <1>4, <1>10, <1>12, <1>13, <1>15, PrefixIs
<1>17. Shortens(a, b)
  BY <1>16 DEF Shortens, f
<1> QED
  BY <1>8, <1>9, <1>17 DEF Left, Shortens, a, b

\* What a flush writes that has to cut the memo.
LEMMA CutIsLeft ==
  ASSUME NoBeginnings, NEW m, NEW h, NEW s, Headed(s), Frame(m, h, s),
         NEW k, NEW r, CutOff(r, k, m)
  PROVE  Left(r, k, m)
<1>1. k \in Nat /\ h \in Nat /\ Len(s) \in Nat
  BY DEF CutOff, Frame
<1>2. CASE k < h
  BY <1>2, LeftAbove
<1>3. CASE h <= k /\ k < h + Len(s)
  BY <1>3, LeftWithin
<1>4. CASE k >= h + Len(s)
  BY <1>4, LeftBelow
<1> QED
  BY <1>1, <1>2, <1>3, <1>4

\* People write around what is there.
LEMMA AroundAbove ==
  ASSUME NoBeginnings, NEW m, Framed(m), NEW p \in Seq(Free), NEW r, r = p \o m
  PROVE  IsSuffix(AboveOf(m), AboveOf(r)) /\ IsPrefix(BelowOf(m), BelowOf(r))
<1> DEFINE lp == Len(p)
           lm == Len(m)
<1>1. p \in Seq(Lines) /\ m \in Seq(Lines)
  <2>1. p \in Seq(Lines)
    BY FreeLines, SeqMonotonic
  <2>2. m \in Seq(Free) => m \in Seq(Lines)
    BY FreeLines, SeqMonotonic
  <2> QED
    BY <2>1, <2>2 DEF Framed, Frame
<1>2. lp \in Nat /\ lm \in Nat
  BY <1>1
<1>3. Len(r) = lp + lm
  BY <1>1, ConcatProperties
<1>4. \A i \in 1 .. lp + lm : r[i] = IF i <= lp THEN p[i] ELSE m[i - lp]
  BY <1>1, ConcatProperties
<1>5. ASSUME NEW i \in 1 .. lm
      PROVE  r[lp + i] = m[i]
  <2> HIDE DEF lp, lm
  <2>1. lp + i \in 1 .. lp + lm /\ ~ (lp + i <= lp) /\ (lp + i) - lp = i
    BY <1>2
  <2> QED
    BY <1>4, <2>1
<1>6. CASE m \in Seq(Free)
  <2>1. r \in Seq(Free)
    BY <1>6, ConcatProperties
  <2>2. AboveOf(r) = r /\ BelowOf(r) = <<>> /\ AboveOf(m) = m /\ BelowOf(m) = <<>>
    BY <1>6, <2>1, FreeAround
  <2>3. IsSuffix(m, r)
    <3>1. Len(m) <= Len(r) /\ Len(r) - Len(m) = lp
      BY <1>2, <1>3
    <3>2. \A i \in 1 .. Len(m) : r[(Len(r) - Len(m)) + i] = m[i]
      BY <1>5, <3>1
    <3> HIDE DEF lp, lm
    <3> QED
      BY <1>6, <2>1, <3>1, <3>2, SuffixIs
  <2>4. IsPrefix(<<>>, <<>>)
    BY DEF IsPrefix
  <2> QED
    BY <2>2, <2>3, <2>4
<1>7. ASSUME NEW s \in Seq(Lines), NEW h \in 1 .. Len(m), Headed(s), Frame(m, h, s)
      PROVE  IsSuffix(AboveOf(m), AboveOf(r)) /\ IsPrefix(BelowOf(m), BelowOf(r))
  <2> DEFINE j == lp + h
             ls == Len(s)
             x == AboveOf(m)
             y == AboveOf(r)
             u == BelowOf(m)
             v == BelowOf(r)
  <2>1. Frame(r, j, s)
    BY <1>7, FrameBehind
  <2>2. Surrounded(m, h, Len(s))
    BY <1>7, FrameAround
  <2>3. /\ x \in Seq(Lines) /\ Len(x) = h - 1 /\ \A i \in 1 .. h - 1 : x[i] = m[i]
        /\ u \in Seq(Lines) /\ Len(u) = (lm - (h - 1)) - ls
        /\ \A i \in 1 .. (lm - (h - 1)) - ls : u[i] = m[((h - 1) + ls) + i]
    BY <2>2 DEF Surrounded
  <2> HIDE DEF j
  <2>4. Surrounded(r, j, Len(s))
    BY <1>7, <2>1, FrameAround
  <2>5. /\ y \in Seq(Lines) /\ Len(y) = j - 1 /\ \A i \in 1 .. j - 1 : y[i] = r[i]
        /\ v \in Seq(Lines) /\ Len(v) = (Len(r) - (j - 1)) - ls
        /\ \A i \in 1 .. (Len(r) - (j - 1)) - ls : v[i] = r[((j - 1) + ls) + i]
    BY <2>4 DEF Surrounded
  <2>6. ls \in Nat /\ h \in Nat \ {0} /\ h <= lm
    BY <1>2
  <2> HIDE DEF x, y, u, v, lp, lm, ls
  <2>7. Len(x) <= Len(y) /\ Len(y) - Len(x) = lp
    BY <1>2, <2>3, <2>5, <2>6 DEF j
  <2>8. ASSUME NEW i \in 1 .. Len(x)
        PROVE  y[(Len(y) - Len(x)) + i] = x[i]
    <3>1. i \in 1 .. h - 1 /\ i \in 1 .. lm /\ lp + i \in 1 .. j - 1
      BY <1>2, <2>3, <2>6 DEF j
    <3>2. y[lp + i] = r[lp + i] /\ r[lp + i] = m[i] /\ x[i] = m[i]
      BY <1>5, <2>3, <2>5, <3>1
    <3> QED
      BY <2>7, <3>2
  <2>9. IsSuffix(x, y)
    BY <2>3, <2>5, <2>7, <2>8, SuffixIs
  <2>10. Len(u) <= Len(v) /\ (Len(r) - (j - 1)) - ls = (lm - (h - 1)) - ls
    BY <1>2, <1>3, <2>3, <2>5, <2>6 DEF j, lm, lp
  <2>11. ASSUME NEW i \in 1 .. Len(u)
        PROVE  v[i] = u[i]
    <3> DEFINE k == ((h - 1) + ls) + i
    <3>1. /\ i \in 1 .. (lm - (h - 1)) - ls /\ i \in 1 .. (Len(r) - (j - 1)) - ls
          /\ k \in 1 .. lm /\ lp + k = ((j - 1) + ls) + i
      <4>1. lm \in Nat /\ lp \in Nat /\ j = lp + h
        BY <1>2 DEF j
      <4>2. i \in 1 .. (lm - (h - 1)) - ls
        BY <2>3
      <4>3. i \in 1 .. (Len(r) - (j - 1)) - ls
        BY <2>10, <4>2
      <4> HIDE DEF k
      <4>4. k = ((h - 1) + ls) + i
        BY DEF k
      <4>5. k \in 1 .. lm /\ lp + k = ((j - 1) + ls) + i
        BY <2>6, <4>1, <4>2, <4>4
      <4> QED
        BY <4>2, <4>3, <4>5
    <3>2. u[i] = m[k] /\ v[i] = r[lp + k]
      BY <2>3, <2>5, <3>1
    <3> HIDE DEF k
    <3>3. r[lp + k] = m[k]
      BY <1>5, <3>1
    <3> QED
      BY <3>2, <3>3
  <2>12. IsPrefix(u, v)
    BY <2>3, <2>5, <2>10, <2>11, PrefixIs
  <2> QED
    BY <2>9, <2>12 DEF x, y, u, v
<1> QED
  BY <1>6, <1>7 DEF Framed

LEMMA AroundBelow ==
  ASSUME NoBeginnings, NEW m, Framed(m), Contains(m, Header),
         NEW q \in Seq(Free), Len(q) >= 1, q[1] = OtherHeader, NEW r, r = m \o q
  PROVE  IsSuffix(AboveOf(m), AboveOf(r)) /\ IsPrefix(BelowOf(m), BelowOf(r))
<1> DEFINE lm == Len(m)
           lq == Len(q)
<1>1. m \notin Seq(Free)
  BY FreeText
<1>2. PICK s \in Seq(Lines), h \in 1 .. Len(m) : Headed(s) /\ Frame(m, h, s)
  BY <1>1 DEF Framed
<1>3. m \in Seq(Lines) /\ q \in Seq(Lines)
  <2>1. q \in Seq(Lines)
    BY FreeLines, SeqMonotonic
  <2> QED
    BY <1>2, <2>1 DEF Frame
<1>4. lq \in Nat /\ lm \in Nat
  BY <1>3
<1>5. Len(r) = lm + lq
  BY <1>3, ConcatProperties
<1>6. \A i \in 1 .. lm + lq : r[i] = IF i <= lm THEN m[i] ELSE q[i - lm]
  BY <1>3, ConcatProperties
<1> DEFINE ls == Len(s)
           x == AboveOf(m)
           y == AboveOf(r)
           u == BelowOf(m)
           v == BelowOf(r)
<1>7. Frame(r, h, s)
  BY <1>2, FrameBefore
<1>8. Surrounded(m, h, Len(s))
  BY <1>2, FrameAround
<1>9. /\ x \in Seq(Lines) /\ Len(x) = h - 1 /\ \A i \in 1 .. h - 1 : x[i] = m[i]
      /\ u \in Seq(Lines) /\ Len(u) = (lm - (h - 1)) - ls
      /\ \A i \in 1 .. (lm - (h - 1)) - ls : u[i] = m[((h - 1) + ls) + i]
  BY <1>8 DEF Surrounded
<1>10. Surrounded(r, h, Len(s))
  BY <1>2, <1>7, FrameAround
<1>11. /\ y \in Seq(Lines) /\ Len(y) = h - 1 /\ \A i \in 1 .. h - 1 : y[i] = r[i]
      /\ v \in Seq(Lines) /\ Len(v) = (Len(r) - (h - 1)) - ls
      /\ \A i \in 1 .. (Len(r) - (h - 1)) - ls : v[i] = r[((h - 1) + ls) + i]
  BY <1>10 DEF Surrounded
<1>12. ls \in Nat /\ h \in Nat \ {0} /\ h <= lm
  BY <1>4
<1> HIDE DEF lm, lq, ls, x, y, u, v
<1>13. ASSUME NEW i \in 1 .. lm
       PROVE  r[i] = m[i]
  <2>1. i \in 1 .. lm + lq /\ i <= lm
    BY <1>4
  <2> QED
    BY <1>6, <2>1
<1>14. IsSuffix(x, y)
  <2>1. Len(x) = Len(y) /\ Len(y) - Len(x) = 0 /\ Len(x) <= Len(y)
    BY <1>9, <1>11, <1>12
  <2>2. ASSUME NEW i \in 1 .. Len(x)
        PROVE  y[(Len(y) - Len(x)) + i] = x[i]
    <3>1. i \in 1 .. h - 1 /\ i \in 1 .. lm /\ 0 + i = i
      BY <1>4, <1>9, <1>12
    <3> QED
      BY <1>9, <1>11, <1>13, <2>1, <3>1
  <2> QED
    BY <1>9, <1>11, <2>1, <2>2, SuffixIs
<1>15. IsPrefix(u, v)
  <2>1. Len(u) = (lm - (h - 1)) - ls /\ Len(v) = ((lm + lq) - (h - 1)) - ls
    BY <1>5, <1>9, <1>11
  <2>2. Len(u) <= Len(v)
    BY <1>4, <1>12, <2>1
  <2>3. ASSUME NEW i \in 1 .. Len(u)
        PROVE  v[i] = u[i]
    <3> DEFINE k == ((h - 1) + ls) + i
    <3>1. i \in 1 .. (lm - (h - 1)) - ls /\ i \in 1 .. ((lm + lq) - (h - 1)) - ls /\ k \in 1 .. lm
      BY <1>4, <1>12, <2>1
    <3>2. u[i] = m[k] /\ v[i] = r[k]
      BY <1>5, <1>9, <1>11, <3>1
    <3> HIDE DEF k
    <3> QED
      BY <1>13, <3>1, <3>2
  <2> QED
    BY <1>9, <1>11, <2>2, <2>3, PrefixIs
<1> QED
  BY <1>14, <1>15 DEF x, y, u, v

-----------------------------------------------------------------------------
(* MemoDocument implements AlertBoard.                                        *)

Showing == [n \in Names |-> Told(memo, n)]

DueNow == [n \in {m \in Names : texts[m] # NoText} |-> Due(n)]

ToReport == [n \in Names |-> IF n \in DOMAIN DueNow THEN DueNow[n] ELSE Showing[n]]

\* The memo before the cut shows what is to be reported, and around it what was there.
LEMMA WholeShows ==
  ASSUME NoBeginnings, Typed, FlushInv, stage = "uploaded"
  PROVE  /\ \A n \in Names : Told(WholeMemo(memo, dir), n) = ToReport[n]
         /\ AboveOf(WholeMemo(memo, dir)) = AboveOf(memo)
         /\ BelowOf(WholeMemo(memo, dir)) = BelowOf(memo)
<1> DEFINE old == extructSection(memo, Header)
           full == Sections(old).full
           cut == Sections(old).memo
           start == Inner(old)
           c == NewInner(memo, dir)
           whole == WholeMemo(memo, dir)
<1>1. /\ memo \in Seq(Lines) /\ Framed(memo) /\ NamesHaveTexts /\ dir \in Dirs \cup {NoDir}
      /\ dir = NoDir <=> backend = Discard
      /\ \A n \in Names : texts[n] # NoText <=> n \in ToSet(names)
  BY DEF Typed, MemoTypeOK, FlushInv, Control
<1>2. PutInto(full, cut, start, ToSet(names))
  BY <1>1, NewSectionIs
<1>3. c = IF dir = NoDir THEN full ELSE cut
  BY DEF NewInner
<1>4. \A n \in Names : Told(whole, n) = Told(c, n)
  BY <1>1, WholeMemoTells
<1>5. \A n \in Names : Told(memo, n) = Told(start, n)
  BY <1>1, OldSection
<1>6. AboveOf(whole) = AboveOf(memo) /\ BelowOf(whole) = BelowOf(memo)
  BY <1>1, WholeAround
<1> HIDE DEF whole, c, full, cut, start, old
<1>7. ASSUME NEW n \in Names
      PROVE  Told(whole, n) = ToReport[n]
  <2>1. ToReport[n] = IF texts[n] # NoText THEN Due(n) ELSE Told(memo, n)
    BY DEF ToReport, DueNow, Showing
  <2>2. CASE n \in ToSet(names)
    <3>1. Told(full, n) = Body(texts[n]) /\ Told(cut, n) = Trimmed(n, texts[n])
      BY <1>2, <2>2 DEF PutInto
    <3> QED
      BY <1>1, <1>3, <1>4, <2>1, <2>2, <3>1 DEF Due
  <2>3. CASE n \notin ToSet(names)
    <3>1. Told(full, n) = Told(start, n) /\ Told(cut, n) = Told(start, n)
      BY <1>2, <2>3 DEF PutInto
    <3> QED
      BY <1>1, <1>3, <1>4, <1>5, <2>1, <2>3, <3>1
  <2> QED
    BY <2>2, <2>3
<1> QED
  BY <1>6, <1>7 DEF whole

LEMMA BoardBegins ==
  ASSUME Init
  PROVE  Board!Init
<1>1. memo = <<>> /\ <<>> \in Seq(Free)
  BY EmptySeq DEF Init
<1>2. AboveOf(<<>>) = <<>> /\ BelowOf(<<>>) = <<>>
  BY <1>1, FreeAround
<1>3. Above = <<>> /\ Below = <<>>
  BY <1>1, <1>2, Around
<1>4. [n \in Names |-> Told(memo, n)] = [r \in Names |-> <<>>]
  <2>1. \A n \in Names : Told(<<>>, n) = <<>>
    BY ToldNothing
  <2> QED
    BY <1>1, <2>1
<1>5. DOMAIN [n \in {m \in Names : texts[m] # NoText} |-> Due(n)] = {}
  BY DEF Init
<1>6. Len(memo) = 0
  BY <1>1
<1> QED
  BY <1>3, <1>4, <1>5, <1>6 DEF Board!Init, Board!Nothing

\* Steps that do not write the memo.
LEMMA BoardResolves ==
  ASSUME memo' = memo
  PROVE  Board!Resolve
<1>1. Above' = Above
  BY DEF Above, SelectInSeq
<1>2. Below' = Below
  BY DEF Below, SelectInSeq, SelectInSubSeq
<1> QED
  BY <1>1, <1>2 DEF Board!Resolve

LEMMA BoardReports ==
  ASSUME NoBeginnings, Typed, FlushInv, Update
  PROVE  Board!Report \/ Board!ReportCut
<1> DEFINE whole == WholeMemo(memo, dir)
<1>1. /\ memo \in Seq(Lines) /\ Framed(memo) /\ NamesHaveTexts /\ dir \in Dirs \cup {NoDir}
      /\ Limit \in Nat \ {0}
  BY ConstantsAssumption DEF Typed, MemoTypeOK, FlushInv
<1>2. memo' = NewMemo(memo, newline, dir) /\ stage = "uploaded" /\ texts' = texts /\ backend' = backend
  BY DEF Update, setupVars
<1>3. DueNow' = DueNow
  <2>1. ASSUME NEW n
        PROVE  Due(n)' = Due(n)
    BY <1>2 DEF Due
  <2> QED
    BY <1>2, <2>1 DEF DueNow
<1>4. /\ \A n \in Names : Told(whole, n) = ToReport[n]
      /\ AboveOf(whole) = AboveOf(memo) /\ BelowOf(whole) = BelowOf(memo)
  BY <1>2, WholeShows
<1>5. memo' = whole \/ CutOff(memo', Limit - 1, whole)
  BY <1>1, <1>2, NewMemoIs
<1>6. whole \in Seq(Lines) /\ \E s, h : Headed(s) /\ Frame(whole, h, s)
  BY <1>1, WholeMemoIs
<1> HIDE DEF whole
<1>7. Above' = AboveOf(memo') /\ Below' = BelowOf(memo') /\ Above = AboveOf(memo) /\ Below = BelowOf(memo)
  <2>1. Above' = AboveOf(memo')
    BY DEF Above, AboveOf, SelectInSeq
  <2>2. Below' = BelowOf(memo')
    BY DEF Below, BelowOf, SelectInSeq, SelectInSubSeq
  <2> QED
    BY <2>1, <2>2, Around
<1>8. Board!Reported = ToReport
  BY DEF Board!Reported, ToReport, DueNow, Showing
<1>9. CASE memo' = whole
  <2>1. memo' = whole
    BY <1>9
  <2>2. [n \in Names |-> Told(memo', n)] = ToReport
    BY <1>4, <2>1 DEF ToReport
  <2>3. Above' = Above /\ Below' = Below
    BY <1>4, <1>7, <2>1
  <2>4. Board!Report
    BY <1>3, <1>8, <2>2, <2>3 DEF Board!Report, DueNow
  <2> QED
    BY <2>4
<1>10. CASE CutOff(memo', Limit - 1, whole)
  <2> DEFINE k == Limit - 1
  <2>1. CutOff(memo', k, whole)
    BY <1>10
  <2>2. Left(memo', k, whole)
    <3> HIDE DEF k
    <3> QED
      BY <1>6, <2>1, CutIsLeft
  <2>3. Len(memo') = Limit
    BY <1>1, <2>1 DEF CutOff
  <2>4. \A i \in DOMAIN Above : i < Limit => i \in DOMAIN Above' /\ Above'[i] = Above[i]
    <3>1. DOMAIN Above = 1 .. Len(Above) /\ DOMAIN Above' = 1 .. Len(Above')
      <4>1. \A text \in Seq(Lines) : AboveOf(text) \in Seq(Lines)
        <5>1. ASSUME NEW text \in Seq(Lines), NEW n, n = SelectInSeq(text, LAMBDA line : line = Header),
                     n # 0
              PROVE  SubSeq(text, 1, n - 1) \in Seq(Lines)
          <6> DEFINE I == {i \in 1 .. Len(text) : text[i] = Header}
          <6>1. n = IF I # {} THEN Min(I) ELSE 0
            BY <5>1 DEF SelectInSeq
          <6>2. I \subseteq Nat /\ I # {} /\ n = Min(I)
            BY <5>1, <6>1
          <6>3. n \in I
            <7> HIDE DEF I
            <7> QED
              BY <6>2, MinInSet
          <6>4. n - 1 \in 0 .. Len(text)
            BY <6>3
          <6> QED
            BY <6>4, FirstPart
        <5> QED
          BY <5>1 DEF AboveOf
      <4>2. memo' \in Seq(Lines)
        BY <2>1 DEF CutOff
      <4>3. Above \in Seq(Lines) /\ Above' \in Seq(Lines)
        BY <1>1, <1>7, <4>1, <4>2
      <4> QED
        BY <4>3
    <3>2. ASSUME NEW i \in 1 .. Len(Above), i < Limit
          PROVE  i \in 1 .. Len(Above') /\ Above'[i] = Above[i]
      <4>1. i <= k /\ i \in 1 .. Len(AboveOf(whole))
        BY <1>1, <1>4, <1>7, <3>2
      <4>2. i \in 1 .. Len(AboveOf(memo')) /\ AboveOf(memo')[i] = AboveOf(whole)[i]
        BY <2>2, <4>1 DEF Left
      <4> QED
        BY <1>4, <1>7, <4>2
    <3> QED
      BY <3>1, <3>2
  <2> DEFINE sh == [n \in Names |-> Told(memo', n)]
  <2>5. \A r \in Names : Board!Shortens(sh[r], ToReport[r])
    <3>1. \A r \in Names : Shortens(Told(memo', r), ToReport[r])
      BY <1>4, <2>2 DEF Left
    <3> QED
      BY <3>1 DEF Shortens, Board!Shortens, Board!Nothing, IsPrefix, Board!IsPrefix, Front, Board!Front
  <2>6. \A r, q \in Names :
          r # q /\ sh[r] \notin {<<>>, ToReport[r]} => sh[q] \in {<<>>, ToReport[q]}
    BY <1>4, <2>2 DEF Left
  <2>7. Below' # <<>> => sh = ToReport
    <3>1. Below' # <<>> => \A n \in Names : Told(memo', n) = ToReport[n]
      BY <1>4, <1>7, <2>2 DEF Left
    <3> QED
      BY <3>1 DEF ToReport
  <2>8. Board!Shortens(Below', Below)
    <3>1. Shortens(Below', Below)
      BY <1>4, <1>7, <2>2 DEF Left
    <3> QED
      BY <3>1 DEF Shortens, Board!Shortens, Board!Nothing, IsPrefix, Board!IsPrefix, Front, Board!Front
  <2>9. Board!ReportCut
    BY <1>3, <1>8, <2>3, <2>4, <2>5, <2>6, <2>7, <2>8 DEF Board!ReportCut, Board!Nothing, DueNow
  <2> QED
    BY <2>9
<1> QED
  BY <1>5, <1>9, <1>10

LEMMA BoardIsWritten ==
  ASSUME NEW text, NEW e, Write(text, e), SameTold(memo, text),
         IsSuffix(AboveOf(memo), AboveOf(text)), IsPrefix(BelowOf(memo), BelowOf(text))
  PROVE  Board!Write
<1>1. memo' = text /\ texts' = texts /\ backend' = backend
  BY DEF Write, setupVars
<1>2. [n \in {m \in Names : texts[m] # NoText} |-> Due(n)]' = [n \in {m \in Names : texts[m] # NoText} |-> Due(n)]
  <2>1. ASSUME NEW n
        PROVE  Due(n)' = Due(n)
    BY <1>1 DEF Due
  <2> QED
    BY <1>1, <2>1
<1>3. [n \in Names |-> Told(memo', n)] = [n \in Names |-> Told(memo, n)]
  BY <1>1 DEF SameTold
<1>4. Above' = AboveOf(text)
  BY <1>1 DEF Above, AboveOf, SelectInSeq
<1>5. Below' = BelowOf(text)
  BY <1>1 DEF Below, BelowOf, SelectInSeq, SelectInSubSeq
<1> QED
  BY <1>2, <1>3, <1>4, <1>5, Around DEF Board!Write, IsPrefix, Board!IsPrefix, IsSuffix, Board!IsSuffix, Reverse, Board!Reverse

LEMMA BoardStep ==
  ASSUME NoBeginnings, Typed, FlushInv, [Next]_vars
  PROVE  Board!Next
<1>1. CASE memo' = memo
  BY <1>1, BoardResolves DEF Board!Next
<1>2. CASE Update
  BY <1>2, BoardReports DEF Board!Next
<1>3. ASSUME NEW n \in Notes, WriteAbove(n) \/ WriteBelow(n)
      PROVE  Board!Next
  <2> DEFINE note == <<Note(n)>>
             noted == <<OtherHeader, Note(n)>>
  <2>1. note \in Seq(Free) /\ noted \in Seq(Free)
    BY DEF Free, TextLines, Note
  <2>2. Len(noted) >= 1 /\ noted[1] = OtherHeader
    OBVIOUS
  <2>3. \E e \in BOOLEAN :
          \/ Write(note \o memo, e) \/ Write(noted \o memo, e)
          \/ Contains(memo, Header) /\ Write(memo \o noted, e)
    BY <1>3 DEF WriteAbove, WriteBelow, Typed, MemoTypeOK
  <2>4. Framed(memo)
    BY DEF FlushInv
  <2> HIDE DEF note, noted
  <2>5. ASSUME NEW p \in Seq(Free), NEW e, Write(p \o memo, e)
        PROVE  Board!Write
    <3> DEFINE text == p \o memo
    <3>1. SameTold(memo, text)
      BY <2>4, WrittenAbove
    <3>2. IsSuffix(AboveOf(memo), AboveOf(text)) /\ IsPrefix(BelowOf(memo), BelowOf(text))
      BY <2>4, AroundAbove
    <3>3. Write(text, e)
      BY <2>5
    <3> HIDE DEF text
    <3> QED
      BY <3>1, <3>2, <3>3, BoardIsWritten
  <2>6. ASSUME Contains(memo, Header), NEW e, Write(memo \o noted, e)
        PROVE  Board!Write
    <3> DEFINE text == memo \o noted
    <3>1. SameTold(memo, text)
      BY <2>1, <2>2, <2>4, <2>6, WrittenBelow
    <3>2. IsSuffix(AboveOf(memo), AboveOf(text)) /\ IsPrefix(BelowOf(memo), BelowOf(text))
      BY <2>1, <2>2, <2>4, <2>6, AroundBelow
    <3>3. Write(text, e)
      BY <2>6
    <3> HIDE DEF text
    <3> QED
      BY <3>1, <3>2, <3>3, BoardIsWritten
  <2> QED
    BY <2>1, <2>3, <2>5, <2>6 DEF Board!Next
<1>4. memo' = memo \/ Update \/ \E n \in Notes : WriteAbove(n) \/ WriteBelow(n)
  BY DEF Next, vars, memoVars, Execute, ExecuteAgain, Upload, Keep, FlushFails, Refused
<1> QED
  BY <1>1, <1>2, <1>3, <1>4

\* To its readers the memo is a board: whatever the rules report and people write, a
\* flush replaces what its rules reported, and takes nothing from other rules' sections
\* or from the people, unless the memo is full; then what is furthest below goes first.
THEOREM MemoIsABoard ==
  ASSUME NoBeginnings
  PROVE  Spec => BoardSpec
<1>1. Init => Board!Init
  BY BoardBegins
<1>2. Typed /\ FlushInv /\ [Next]_vars => [Board!Next]_(Board!vars)
  BY BoardStep
<1> QED
  BY <1>1, <1>2, TypedInvariance, FlushInvariance, PTL DEF Spec, BoardSpec, Board!Spec

=============================================================================
