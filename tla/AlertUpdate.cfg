SPECIFICATION Spec
CONSTANTS
  Handlers = {h1, h2}
  Processes = {p1}
  Notes = {n1}
  MaxFlush = 2
  MaxTries = 2
  Parallel = 1
  LostAnswers = TRUE
  Rules <- MCRules
  RuleOf <- MCRuleOf
  NoMemo = NoMemo
  NoProcess = NoProcess
SYMMETRY Alike
INVARIANTS
  TypeOK
  AckedTextStays
  OneSection
  OneAnnotation
PROPERTIES
  KnownNotesStay
